---- MODULE Spec2Model ----
(***************************************************************************)
(* A model of the chi router for fasthttp: the Mux (registration, mounts,  *)
(* dispatch), the chain builder, and the throttle, timeout and recoverer    *)
(* middlewares.                                                            *)
(*                                                                         *)
(* Strings are sequences of atoms; the atom "/" is the path separator.     *)
(***************************************************************************)
EXTENDS Integers, Sequences, FiniteSets, TLC

VARIABLES
    \* ---- throttler (middleware/throttler.go) ----
    limit,          \* ThrottleBacklog argument
    backlogLimit,   \* ThrottleBacklog argument
    tpanic,         \* ThrottleBacklog panicked at construction
    tokens,         \* number of tokens buffered in t.tokens
    backlogTokens,  \* number of tokens buffered in t.backlogTokens
    pc,             \* per request: position inside throttler.ServeHTTPC
    ctxDone,        \* per request: ctx.Done() is closed
    timerC,         \* per request: timer.C holds a value (timer fired)
    tok,            \* per request: holds a token taken from t.tokens
    btok,           \* per request: holds a token taken from t.backlogTokens
    invoked,        \* per request: t.h.ServeHTTPC was called
    resp,           \* per request: what was written to fctx
    \* ---- router (mux.go, chain.go, tree.go) ----
    muxes,          \* every Mux: its middlewares, its routes pointer, its NotFound
    trees,          \* the route maps (method -> tree) the routes pointers refer to
    crashed,        \* a registration panicked: wire-up was aborted
    regs,           \* history: the registrations each route map accepted
    mounts,         \* history: per Mux, mount path -> handler last mounted there
    last,           \* the last request served by the root Mux and its outcome
    inits,          \* history: the middleware factories invoked, in order
    served,         \* history: every request served by the root Mux, in order
    groups,         \* history: per Mux made by Group, its parent and the
                    \* parent's middleware stack when Group was called
    th,             \* the field h of the throttler made by the one call of
                    \* Throttle in the wire-up of the router
    \* ---- timeout (middleware/timeout.go), one request ----
    timeout,        \* Timeout argument; 0 stands for a duration <= 0
    clock,          \* the time
    deadline,       \* the deadline of the context made by WithTimeout
    parentDone,     \* the context the request came with was canceled
    ctxErr,         \* ctx.Err() of the context made by WithTimeout
    tmpc,           \* position inside the handler Timeout returns
    statusCode,     \* the status code of the response
    handlerCode,    \* history: the status code the wrapped handler set
    work,           \* steps the wrapped handler still has to do
    fired,          \* history: the deadline of the derived context fired
    set504,         \* history: Timeout called SetStatusCode(504)
    waitFired       \* history: the derived context expired by its deadline
                    \* while the request waited in the throttler below

tvars == <<limit, backlogLimit, tpanic, tokens, backlogTokens, pc, ctxDone,
           timerC, tok, btok, invoked, resp>>

rvars == <<muxes, trees, crashed, regs, mounts, last, inits, served, groups,
           th>>

mvars == <<timeout, clock, deadline, parentDone, ctxErr, tmpc, statusCode,
           handlerCode, work, fired, set504, waitFired>>

vars == <<tvars, rvars, mvars>>

Nil == "nil"

\* ------------------------------------------------------------------------
\* Bounds of the model
\* ------------------------------------------------------------------------
NumReq == 2
MaxLimit == 2
MaxBacklog == 1

Reqs == 1..NumReq

\* ------------------------------------------------------------------------
\* Strings: a string is a sequence of atoms, "/" is the separator
\* ------------------------------------------------------------------------
\* strings.Split(s, "/")
RECURSIVE Split(_)
Split(s) ==
    IF \A i \in 1..Len(s) : s[i] # "/"
    THEN <<s>>
    ELSE LET i == CHOOSE j \in 1..Len(s) :
                      s[j] = "/" /\ \A k \in 1..(j - 1) : s[k] # "/"
         IN <<SubSeq(s, 1, i - 1)>> \o Split(SubSeq(s, i + 1, Len(s)))

\* strings.Join(segs, "/")
RECURSIVE Join(_)
Join(segs) ==
    IF Len(segs) = 0 THEN <<>>
    ELSE IF Len(segs) = 1 THEN segs[1]
    ELSE segs[1] \o <<"/">> \o Join(Tail(segs))

\* the segments of a pattern or path that begins with "/"
Segments(p) == Split(Tail(p))

\* map[string]string
EmptyMap == [k \in {} |-> <<>>]
MapPut(m, k, v) == [x \in (DOMAIN m) \cup {k} |-> IF x = k THEN v ELSE m[x]]
MapDel(m, k) == [x \in (DOMAIN m) \ {k} |-> m[x]]
MapGet(m, k) == IF k \in DOMAIN m THEN m[k] ELSE <<>>

\* ------------------------------------------------------------------------
\* Handlers and middlewares as values
\* ------------------------------------------------------------------------
NilH == [kind |-> "nil"]

\* a handler written by the application: writes its id as the body
UserHandler(id, status) == [kind |-> "user", id |-> id, status |-> status]

\* a handler that panics when it is called
PanicHandler(id) == [kind |-> "panics", id |-> id]

\* a Mux used as a Handler
MuxHandler(mx) == [kind |-> "mux", id |-> mx]

\* http.NotFound
HttpNotFound == [kind |-> "http.NotFound"]

\* a middleware func(Handler) Handler; calls |-> FALSE: it never calls next
Middleware(id, calls) == [kind |-> "middleware", id |-> id, calls |-> calls]

\* middleware.Recoverer
Recoverer == Middleware("recoverer", TRUE)

\* the function one call of middleware.Throttle returns
Throttle == Middleware("throttle", TRUE)

\* the Handler a middleware returned when applied to next
Wrapped(mw, next) == [kind |-> "mw", mw |-> mw, next |-> next]

\* the subRouter closure built by Mount around h
SubRouter(h) == [kind |-> "subRouter", h |-> h]

\* ------------------------------------------------------------------------
\* Methods
\* ------------------------------------------------------------------------
\* a methodTyp is a bit set; it is modelled as the set of its bits
NativeMethods ==
    {"CONNECT", "DELETE", "GET", "HEAD", "OPTIONS", "PATCH", "POST", "PUT", "TRACE"}

methodMap == [m \in NativeMethods |-> {m}]

mGET == {"GET"}
mHEAD == {"HEAD"}
mPOST == {"POST"}
mALL == NativeMethods \cup {"IDK"}

\* methodMap[r.Method]: the zero methodTyp for a method that is no key
MethodTyp(method) == IF method \in DOMAIN methodMap THEN methodMap[method] ELSE {}

\* ------------------------------------------------------------------------
\* Path trie: a tree is a function from its nodes to the handler stored
\* there; a node is the sequence of segment keys on the way from the root.
\* ------------------------------------------------------------------------
EmptyTree == [n \in {<<>>} |-> NilH]

SegKey(seg) ==
    IF seg # <<>> /\ seg[1] = ":"
    THEN [typ |-> "param", s |-> Tail(seg)]
    ELSE IF seg # <<>> /\ seg[1] = "*"
    THEN [typ |-> "catchall", s |-> IF Tail(seg) = <<>> THEN <<"*">> ELSE Tail(seg)]
    ELSE [typ |-> "static", s |-> seg]

RECURSIVE KeysOf(_)
KeysOf(segs) ==
    IF segs = <<>> THEN <<>> ELSE <<SegKey(Head(segs))>> \o KeysOf(Tail(segs))

PatternKeys(pattern) == KeysOf(Segments(pattern))

Prefixes(ks) == {SubSeq(ks, 1, i) : i \in 0..Len(ks)}

\* the children of node n of the given kind
Children(t, n, typ) ==
    {c \in DOMAIN t : /\ Len(c) = Len(n) + 1
                      /\ SubSeq(c, 1, Len(n)) = n
                      /\ c[Len(c)].typ = typ}

\* a catch-all followed by more segments, or a parameter (catch-all) child
\* that already exists at that node under another name
PatternConflict(t, ks) ==
    \/ \E i \in 1..(Len(ks) - 1) : ks[i].typ = "catchall"
    \/ \E i \in 1..Len(ks) :
          /\ ks[i].typ # "static"
          /\ SubSeq(ks, 1, i - 1) \in DOMAIN t
          /\ \E c \in Children(t, SubSeq(ks, 1, i - 1), ks[i].typ) :
                c[i].s # ks[i].s

\* mutant: a pattern that has a handler keeps it
InsertKeepFirst(t, pattern, h) ==
    LET ks == PatternKeys(pattern) IN
    IF PatternConflict(t, ks)
    THEN [tree |-> t, err |-> "PatternConflict"]
    ELSE [tree |-> [n \in (DOMAIN t) \cup Prefixes(ks) |->
                       IF n \in DOMAIN t /\ t[n] # NilH THEN t[n]
                       ELSE IF n = ks THEN h
                       ELSE NilH],
          err |-> "nil"]

\* tree.Insert(pattern, handler)
Insert(t, pattern, h) ==
    LET ks == PatternKeys(pattern) IN
    IF PatternConflict(t, ks)
    THEN [tree |-> t, err |-> "PatternConflict"]
    ELSE [tree |-> [n \in (DOMAIN t) \cup Prefixes(ks) |->
                       IF n = ks THEN h
                       ELSE IF n \in DOMAIN t THEN t[n] ELSE NilH],
          err |-> "nil"]

Miss(params) == [h |-> NilH, params |-> params]

\* mutant: the parameter child is tried before the static child
FirstHitParamFirst(viaStatic, viaParam, viaCatchAll, params) ==
    IF viaParam.h # NilH THEN viaParam
    ELSE IF viaStatic.h # NilH THEN viaStatic
    ELSE IF viaCatchAll.h # NilH THEN viaCatchAll
    ELSE Miss(params)

\* the order in which the children of a node are tried
FirstHit(viaStatic, viaParam, viaCatchAll, params) ==
    IF viaStatic.h # NilH THEN viaStatic
    ELSE IF viaParam.h # NilH THEN viaParam
    ELSE IF viaCatchAll.h # NilH THEN viaCatchAll
    ELSE Miss(params)

\* the descent of tree.Find below node n: a static child equal to the next
\* segment first, then the parameter child, then the catch-all child; a
\* branch that ends without a handler is given up for the next kind
\* (TestMuxBig: GET /hubs/123 is served by the mount on /hubs although
\* /hubs/:hubID/view is registered in the same tree)
RECURSIVE FindNode(_, _, _, _)
FindNode(t, n, segs, params) ==
    IF segs = <<>>
    THEN [h |-> t[n], params |-> params]
    ELSE LET seg == Head(segs)
             st == Append(n, [typ |-> "static", s |-> seg])
             pk == Children(t, n, "param")
             ck == Children(t, n, "catchall")
             viaStatic ==
                 IF st \in DOMAIN t
                 THEN FindNode(t, st, Tail(segs), params)
                 ELSE Miss(params)
             viaParam ==
                 IF seg # <<>> /\ pk # {}
                 THEN LET c == CHOOSE c \in pk : TRUE
                      IN FindNode(t, c, Tail(segs),
                                  MapPut(params, c[Len(c)].s, seg))
                 ELSE Miss(params)
             viaCatchAll ==
                 IF ck # {}
                 THEN LET c == CHOOSE c \in ck : TRUE
                      IN [h |-> t[c],
                          params |-> MapPut(params, c[Len(c)].s, Join(segs))]
                 ELSE Miss(params)
         IN FirstHit(viaStatic, viaParam, viaCatchAll, params)

\* tree.Find(path, params)
Find(t, path, params) == FindNode(t, <<>>, Segments(path), params)

\* ------------------------------------------------------------------------
\* Chain builder
\* ------------------------------------------------------------------------
\* the loop of chain: wraps h with mws[i], mws[i-1], ..., mws[1]
RECURSIVE WrapFrom(_, _, _)
WrapFrom(mws, i, h) ==
    IF i < 1 THEN h ELSE WrapFrom(mws, i - 1, Wrapped(mws[i], h))

\* mutant: the loop runs from the first middleware to the last
RECURSIVE WrapForward(_, _, _)
WrapForward(mws, i, h) ==
    IF i > Len(mws) THEN h ELSE WrapForward(mws, i + 1, Wrapped(mws[i], h))

chainReversed(middlewares, handlers) ==
    LET mws == middlewares \o SubSeq(handlers, 1, Len(handlers) - 1)
    IN WrapForward(mws, 1, handlers[Len(handlers)])

\* the middleware factories chain invokes, in the order it invokes them:
\* mwrap(mws[len(mws)-1])(cxh) first, mwrap(mws[0])(h) last
Factories(middlewares, handlers) ==
    LET mws == middlewares \o SubSeq(handlers, 1, Len(handlers) - 1)
    IN [i \in 1..Len(mws) |-> mws[Len(mws) + 1 - i].id]

\* t.h after chain(middlewares, handlers...), h being t.h before: the
\* function Throttle returned, when it is among the middlewares, is called
\* with the handler made of what follows it and stores it in t.h
ThrottlerH(h, middlewares, handlers) ==
    LET mws == middlewares \o SubSeq(handlers, 1, Len(handlers) - 1)
        at == {i \in 1..Len(mws) : mws[i] = Throttle}
    IN IF at = {} THEN h
       ELSE LET i == CHOOSE k \in at : \A l \in at : k <= l
            IN WrapFrom(SubSeq(mws, i + 1, Len(mws)), Len(mws) - i,
                        handlers[Len(handlers)])

\* chain(middlewares, handlers...): handlers is inline middlewares, then the
\* request handler
chain(middlewares, handlers) ==
    LET mws == middlewares \o SubSeq(handlers, 1, Len(handlers) - 1)
        cxh == handlers[Len(handlers)]
    IN IF Len(mws) = 0 THEN cxh ELSE WrapFrom(mws, Len(mws), cxh)

\* ------------------------------------------------------------------------
\* Mux: dispatch
\* ------------------------------------------------------------------------
MuxIds == {"r", "sr1", "sr2"}
Root == "r"

\* a request context: the url params map (if one was attached) and the
\* sub-router path stored under subRouterCtxKey (if any)
NoSub == [set |-> FALSE, path |-> <<>>]
Background == [hasParams |-> FALSE, params |-> EmptyMap, sub |-> NoSub]

Response(status, body, trace) ==
    [status |-> status, body |-> body, trace |-> trace, panic |-> FALSE,
     allow |-> {}]

\* the goroutine panicked: nothing was written
Panicked(trace) ==
    [status |-> 0, body |-> "", trace |-> trace, panic |-> TRUE, allow |-> {}]

\* mutant: the deferred function of Recoverer does not call recover()
RecovererDeferNoRecover(r) == r

\* the deferred function of Recoverer, run with the outcome r of
\* next.ServeHTTPC: recover() stops a panic and fctx.Error replaces the
\* response
RecovererDefer(r) ==
    IF r.panic
    THEN Response(500, "Internal Server Error",
                  r.trace \o <<[ev |-> "recover"]>>)
    ELSE r

\* methodNotAllowedHandler
methodNotAllowedHandler ==
    [status |-> 405, body |-> "Method Not Allowed", trace |-> <<>>,
     panic |-> FALSE, allow |-> DOMAIN methodMap]

\* mutant: the path stored by the mount wrapper is not used
LookupPathOfRequest(ctx, req) == req.path

\* path := r.URL.Path, replaced by the path stored under subRouterCtxKey
LookupPath(ctx, req) == IF ctx.sub.set THEN ctx.sub.path ELSE req.path

\* mutant: a Mux reached through a mount starts from an empty params map
LookupParamsFresh(ctx, params) == IF ctx.sub.set THEN EmptyMap ELSE params

\* mutant: the "*" of the mount stays in the params map
LookupParamsKeepStar(ctx, params) == params

\* delete(params, "*") when a sub-router path was stored
LookupParams(ctx, params) ==
    IF ctx.sub.set THEN MapDel(params, <<"*">>) ELSE params

\* mutant: the handler is given the params as they were before Find
HandlerCtxStaleParams(ctx, before, after) ==
    [hasParams |-> TRUE, params |-> before,
     sub |-> IF ctx.sub.set THEN NoSub ELSE ctx.sub]

\* the context the matched handler is served with: the params map Find has
\* filled, and the sub-router path unset
HandlerCtx(ctx, before, after) ==
    [hasParams |-> TRUE, params |-> after,
     sub |-> IF ctx.sub.set THEN NoSub ELSE ctx.sub]

RECURSIVE Run(_, _, _), ServeHTTPC(_, _, _)

\* Mux.ServeHTTPC
ServeHTTPC(mx, ctx, req) ==
    LET params == IF ctx.hasParams THEN ctx.params ELSE EmptyMap
        mt == MethodTyp(req.method)
        path == LookupPath(ctx, req)
        before == LookupParams(ctx, params)
        lookup == [ev |-> "lookup", mux |-> mx, path |-> path]
    IN IF muxes[mx].routes = "nil" \/ mt = {}
       THEN \* routes is a nil *tree: Find dereferences it
            Panicked(<<lookup>>)
       ELSE LET f == Find(trees[muxes[mx].routes][req.method], path, before)
            IN IF f.h = NilH
               THEN Response(404, "~~ not found ~~",
                             <<lookup, [ev |-> "notfound", mux |-> mx]>>)
               ELSE LET r == Run(f.h, HandlerCtx(ctx, before, f.params), req)
                    IN [r EXCEPT !.trace = <<lookup>> \o r.trace]

\* h.ServeHTTPC(ctx, w, r) for each kind of handler
Run(h, ctx, req) ==
    CASE h.kind = "user" ->
            Response(h.status, h.id,
                     <<[ev |-> "handler", id |-> h.id, params |-> ctx.params,
                        sub |-> ctx.sub.set]>>)
      [] h.kind = "panics" -> Panicked(<<[ev |-> "panic", id |-> h.id]>>)
      [] h.kind = "http.NotFound" ->
            Response(404, "404 page not found", <<[ev |-> "http.NotFound"]>>)
      [] h.kind = "mux" -> ServeHTTPC(h.id, ctx, req)
      [] h.kind = "subRouter" ->
            \* the closure of Mount: stores "/" + params["*"] and serves h
            LET path == MapGet(ctx.params, <<"*">>)
                r == Run(h.h,
                         [ctx EXCEPT !.sub = [set |-> TRUE,
                                              path |-> <<"/">> \o path]],
                         req)
            IN [r EXCEPT !.trace =
                   <<[ev |-> "mount", h |-> h.h, sub |-> ctx.sub.set]>> \o r.trace]
      [] h.kind = "mw" /\ h.mw = Recoverer ->
            LET r == RecovererDefer(Run(h.next, ctx, req))
            IN [r EXCEPT !.trace = <<[ev |-> "enter", mw |-> h.mw.id]>>
                                    \o r.trace
                                    \o <<[ev |-> "exit", mw |-> h.mw.id]>>]
      [] h.kind = "mw" /\ h.mw = Throttle ->
            \* the handler is &t, whatever handler the function was called
            \* with: with its tokens free it calls t.h.ServeHTTPC
            LET r == Run(th, ctx, req)
            IN [r EXCEPT !.trace = <<[ev |-> "enter", mw |-> h.mw.id]>>
                                    \o r.trace
                                    \o IF r.panic THEN <<>>
                                       ELSE <<[ev |-> "exit", mw |-> h.mw.id]>>]
      [] h.kind = "mw" /\ h.mw \notin {Recoverer, Throttle} ->
            IF h.mw.calls
            THEN \* a panic below unwinds through the middleware: the code
                 \* after next.ServeHTTPC does not run
                 LET r == Run(h.next, ctx, req)
                 IN [r EXCEPT !.trace = <<[ev |-> "enter", mw |-> h.mw.id]>>
                                         \o r.trace
                                         \o IF r.panic THEN <<>>
                                            ELSE <<[ev |-> "exit", mw |-> h.mw.id]>>]
            ELSE Response(200, h.mw.id,
                          <<[ev |-> "enter", mw |-> h.mw.id],
                            [ev |-> "exit", mw |-> h.mw.id]>>)

\* Mux.ServeHTTP
ServeHTTP(mx, req) == ServeHTTPC(mx, Background, req)

\* ------------------------------------------------------------------------
\* Mux: registration. The operations map a world (the router variables)
\* to the world after the call.
\* ------------------------------------------------------------------------
World ==
    [muxes |-> muxes, trees |-> trees, crashed |-> crashed, regs |-> regs,
     mounts |-> mounts, inits |-> inits, groups |-> groups, th |-> th]

\* NewRouter()
NewRouter == [middlewares |-> <<>>, routes |-> "nil", notFound |-> NilH]

\* mutant: Use also wraps the handlers of the routes registered so far
UseRewraps(w, mx, mws) ==
    IF w.crashed THEN w
    ELSE LET tid == w.muxes[mx].routes
         IN [w EXCEPT
               !.muxes[mx].middlewares = @ \o mws,
               !.trees = IF tid = "nil" THEN w.trees
                         ELSE [w.trees EXCEPT ![tid] =
                                 [mt \in NativeMethods |->
                                    [n \in DOMAIN w.trees[tid][mt] |->
                                       IF w.trees[tid][mt][n] = NilH THEN NilH
                                       ELSE WrapFrom(mws, Len(mws),
                                                     w.trees[tid][mt][n])]]]]

\* Mux.Use
Use(w, mx, mws) ==
    IF w.crashed THEN w
    ELSE [w EXCEPT !.muxes[mx].middlewares = @ \o mws]

\* mutant: the inline middlewares of a route stay on the stack of the Mux
handleKeepsInline(w, mx, method, pattern, handlers) ==
    IF w.crashed THEN w
    ELSE IF pattern = <<>> \/ pattern[1] # "/"
    THEN [w EXCEPT !.crashed = TRUE,
                   !.inits = @ \o Factories(w.muxes[mx].middlewares, handlers),
                   !.th = ThrottlerH(@, w.muxes[mx].middlewares, handlers)]
    ELSE LET h == chain(w.muxes[mx].middlewares, handlers)
             fresh == w.muxes[mx].routes = "nil"
             tid == IF fresh THEN mx ELSE w.muxes[mx].routes
             base == IF fresh THEN [mt \in NativeMethods |-> EmptyTree]
                     ELSE w.trees[tid]
             hit == {mt \in NativeMethods : (method \cap methodMap[mt]) # {}}
             ins == [mt \in NativeMethods |-> Insert(base[mt], pattern, h)]
             ok == {mt \in hit : ins[mt].err = "nil"}
         IN [w EXCEPT
               !.inits = @ \o Factories(w.muxes[mx].middlewares, handlers),
               !.th = ThrottlerH(@, w.muxes[mx].middlewares, handlers),
               !.muxes[mx].routes = tid,
               !.muxes[mx].middlewares =
                   @ \o SubSeq(handlers, 1, Len(handlers) - 1),
               !.trees[tid] = [mt \in NativeMethods |->
                                  IF mt \in hit THEN ins[mt].tree ELSE base[mt]],
               !.regs[tid] =
                   {g \in @ : ~(g.mt \in ok /\ g.pattern = pattern)}
                   \cup {[mt |-> mt, pattern |-> pattern, h |-> h,
                          stack |-> w.muxes[mx].middlewares,
                          handlers |-> handlers] : mt \in ok}]

\* Mux.handle; chain runs before the pattern is looked at, and the error
\* Insert returns is dropped
handle(w, mx, method, pattern, handlers) ==
    IF w.crashed THEN w
    ELSE IF pattern = <<>> \/ pattern[1] # "/"
    THEN [w EXCEPT !.crashed = TRUE,
                   !.inits = @ \o Factories(w.muxes[mx].middlewares, handlers),
                   !.th = ThrottlerH(@, w.muxes[mx].middlewares, handlers)]
    ELSE LET h == chain(w.muxes[mx].middlewares, handlers)
             fresh == w.muxes[mx].routes = "nil"
             tid == IF fresh THEN mx ELSE w.muxes[mx].routes
             base == IF fresh THEN [mt \in NativeMethods |-> EmptyTree]
                     ELSE w.trees[tid]
             hit == {mt \in NativeMethods : (method \cap methodMap[mt]) # {}}
             ins == [mt \in NativeMethods |-> Insert(base[mt], pattern, h)]
             ok == {mt \in hit : ins[mt].err = "nil"}
         IN [w EXCEPT
               !.inits = @ \o Factories(w.muxes[mx].middlewares, handlers),
               !.th = ThrottlerH(@, w.muxes[mx].middlewares, handlers),
               !.muxes[mx].routes = tid,
               !.trees[tid] = [mt \in NativeMethods |->
                                  IF mt \in hit THEN ins[mt].tree ELSE base[mt]],
               !.regs[tid] =
                   {g \in @ : ~(g.mt \in ok /\ g.pattern = pattern)}
                   \cup {[mt |-> mt, pattern |-> pattern, h |-> h,
                          stack |-> w.muxes[mx].middlewares,
                          handlers |-> handlers] : mt \in ok}]

\* mutant: Handle registers under GET alone
HandleGetOnly(w, mx, pattern, handlers) == handle(w, mx, mGET, pattern, handlers)

\* Mux.Handle
Handle(w, mx, pattern, handlers) == handle(w, mx, mALL, pattern, handlers)

\* Mux.Head (Head is the head of a sequence here)
MuxHead(w, mx, pattern, handlers) == handle(w, mx, mHEAD, pattern, handlers)

\* mutant: Get registers under every method
GetAllMethods(w, mx, pattern, handlers) == handle(w, mx, mALL, pattern, handlers)

\* Mux.Get
Get(w, mx, pattern, handlers) == handle(w, mx, mGET, pattern, handlers)

\* Mux.Post
Post(w, mx, pattern, handlers) == handle(w, mx, mPOST, pattern, handlers)

NoGroup == [set |-> FALSE, parent |-> "nil", stack |-> <<>>]

\* mutant: the Mux made by Group starts with an empty middleware stack
GroupEmptyStack(w, mx, g) ==
    IF w.crashed THEN w
    ELSE [w EXCEPT
            !.muxes[g] = [middlewares |-> <<>>,
                          routes |-> w.muxes[mx].routes,
                          notFound |-> NilH],
            !.groups[g] = [set |-> TRUE, parent |-> mx,
                           stack |-> w.muxes[mx].middlewares]]

\* Mux.Group: g is the Mux it makes, with a copy of the middlewares of mx
\* and the value of mx.routes (nil while mx has registered nothing); the
\* registrations of fn are the calls on g that follow
Group(w, mx, g) ==
    IF w.crashed THEN w
    ELSE [w EXCEPT
            !.muxes[g] = [middlewares |-> w.muxes[mx].middlewares,
                          routes |-> w.muxes[mx].routes,
                          notFound |-> NilH],
            !.groups[g] = [set |-> TRUE, parent |-> mx,
                           stack |-> w.muxes[mx].middlewares]]

\* Mux.NotFound
NotFound(w, mx, h) ==
    IF w.crashed THEN w ELSE [w EXCEPT !.muxes[mx].notFound = h]

\* mutant: the mount wrapper is registered without the middleware stack of
\* the mounting Mux
MountBare(w, mx, path, handlers) ==
    LET h == chain(<<>>, handlers)
        p == IF path = <<"/">> THEN <<>> ELSE path
        w0 == [w EXCEPT !.muxes[mx].middlewares = <<>>]
        w1 == Handle(w0, mx, p, <<SubRouter(h)>>)
        w2 == IF p # <<>>
              THEN Handle(w1, mx, p \o <<"/">>, <<HttpNotFound>>)
              ELSE w1
        w3 == Handle(w2, mx, p \o <<"/", "*">>, <<SubRouter(h)>>)
    IN IF w3.crashed THEN w3
       ELSE [w3 EXCEPT !.mounts[mx] = MapPut(@, path, h),
                       !.muxes[mx].middlewares = w.muxes[mx].middlewares]

\* mutant: the mount point alone is registered, not the paths below it
MountIndexOnly(w, mx, path, handlers) ==
    LET h == chain(<<>>, handlers)
        p == IF path = <<"/">> THEN <<>> ELSE path
        w0 == [w EXCEPT !.inits = @ \o Factories(<<>>, handlers)]
        w1 == Handle(w0, mx, p, <<SubRouter(h)>>)
        w2 == IF p # <<>>
              THEN Handle(w1, mx, p \o <<"/">>, <<HttpNotFound>>)
              ELSE w1
    IN IF w2.crashed THEN w2
       ELSE [w2 EXCEPT !.mounts[mx] = MapPut(@, path, h)]

\* Mux.Mount
Mount(w, mx, path, handlers) ==
    LET h == chain(<<>>, handlers)
        subRouter == SubRouter(h)
        p == IF path = <<"/">> THEN <<>> ELSE path
        w0 == IF w.crashed THEN w
              ELSE [w EXCEPT !.inits = @ \o Factories(<<>>, handlers)]
        w1 == Handle(w0, mx, p, <<subRouter>>)
        w2 == IF p # <<>>
              THEN Handle(w1, mx, p \o <<"/">>, <<HttpNotFound>>)
              ELSE w1
        w3 == Handle(w2, mx, p \o <<"/", "*">>, <<subRouter>>)
    IN IF w3.crashed THEN w3
       ELSE [w3 EXCEPT !.mounts[mx] = MapPut(@, path, h)]

\* the router variables before any registration, and no request served
NoRequest ==
    [served |-> FALSE, method |-> "", path |-> <<>>,
     res |-> Response(0, "", <<>>)]

RouterIdle ==
    /\ muxes = [mx \in MuxIds |-> NewRouter]
    /\ trees = [mx \in MuxIds |-> <<>>]
    /\ crashed = FALSE
    /\ regs = [mx \in MuxIds |-> {}]
    /\ mounts = [mx \in MuxIds |-> EmptyMap]
    /\ last = NoRequest
    /\ inits = <<>>
    /\ served = <<>>
    /\ groups = [mx \in MuxIds |-> NoGroup]
    /\ th = NilH

\* the world after a registration call becomes the state
Apply(w) ==
    /\ muxes' = w.muxes
    /\ trees' = w.trees
    /\ crashed' = w.crashed
    /\ regs' = w.regs
    /\ mounts' = w.mounts
    /\ inits' = w.inits
    /\ groups' = w.groups
    /\ th' = w.th
    /\ UNCHANGED <<last, served, tvars, mvars>>

\* registrations happen during wire-up, before the first request
Wiring == ~crashed /\ ~last.served

\* the patterns a Mux has registered in its route map
RegPatterns(mx) ==
    IF muxes[mx].routes = "nil" THEN {}
    ELSE {g.pattern : g \in regs[muxes[mx].routes]}

\* the root Mux serves a request. Serving changes nothing in the router, so
\* one request per behaviour shows every outcome of the wired configuration.
Serve(method, path) ==
    /\ ~crashed
    /\ ~last.served
    /\ last' = [served |-> TRUE, method |-> method, path |-> path,
                res |-> ServeHTTP(Root, [method |-> method, path |-> path])]
    /\ served' = Append(served, last')
    /\ UNCHANGED <<muxes, trees, crashed, regs, mounts, inits, groups, th,
                   tvars, mvars>>

\* ------------------------------------------------------------------------
\* Timeout, for one request
\* ------------------------------------------------------------------------
MaxTimeout == 2
MaxClock == 3
MaxWork == 2

StatusGatewayTimeout == 504
StatusNotFound == 404

\* no request has reached the handler Timeout returns
TimeoutIdle ==
    /\ timeout = 1
    /\ clock = 0
    /\ deadline = 0
    /\ parentDone = FALSE
    /\ ctxErr = "nil"
    /\ tmpc = "idle"
    /\ statusCode = 200
    /\ handlerCode = 200
    /\ work = 0
    /\ fired = FALSE
    /\ set504 = FALSE
    /\ waitFired = FALSE

\* time passes while the request is inside Timeout
Tick ==
    /\ tmpc \in {"handler", "cancel", "check"}
    /\ clock < MaxClock
    /\ clock' = clock + 1
    /\ UNCHANGED <<timeout, deadline, parentDone, ctxErr, tmpc, statusCode,
                   handlerCode, work, fired, set504, waitFired,
                   tvars, rvars>>

\* ctx, cancel := context.WithTimeout(ctx, timeout), then
\* next.ServeHTTPC(ctx, fctx) is entered: a context whose parent is done is
\* done with the parent's error, one whose deadline has passed is expired
TimeoutEnter ==
    /\ tmpc = "idle"
    /\ deadline' = clock + timeout
    /\ ctxErr' = IF parentDone THEN "Canceled"
                 ELSE IF timeout = 0 THEN "DeadlineExceeded"
                 ELSE "nil"
    /\ fired' = (~parentDone /\ timeout = 0)
    /\ tmpc' = "handler"
    /\ UNCHANGED <<timeout, clock, parentDone, statusCode, handlerCode, work,
                   set504, waitFired,
                   tvars, rvars>>

\* the timer of the derived context fires at or after the deadline, unless
\* the context is done already
DeadlineFire ==
    /\ tmpc \in {"handler", "cancel"}
    /\ ctxErr = "nil"
    /\ clock >= deadline
    /\ ctxErr' = "DeadlineExceeded"
    /\ fired' = TRUE
    /\ UNCHANGED <<timeout, clock, deadline, parentDone, tmpc, statusCode,
                   handlerCode, work, set504, waitFired,
                   tvars, rvars>>

\* the context the request came with is canceled: the derived context is
\* canceled with it and its timer is stopped
ParentCancel ==
    /\ ~parentDone
    /\ tmpc \in {"idle", "handler", "cancel"}
    /\ parentDone' = TRUE
    /\ ctxErr' = IF tmpc # "idle" /\ ctxErr = "nil" THEN "Canceled" ELSE ctxErr
    /\ UNCHANGED <<timeout, clock, deadline, tmpc, statusCode, handlerCode,
                   work, fired, set504, waitFired,
                   tvars, rvars>>

\* the wrapped handler does one step of its work
WrappedWork ==
    /\ tmpc = "handler"
    /\ work > 0
    /\ work' = work - 1
    /\ UNCHANGED <<timeout, clock, deadline, parentDone, ctxErr, tmpc,
                   statusCode, handlerCode, fired, set504, waitFired,
                   tvars, rvars>>

\* the wrapped handler looks at ctx.Done() and gives the rest of its work up
WrappedObserve ==
    /\ tmpc = "handler"
    /\ work > 0
    /\ ctxErr # "nil"
    /\ work' = 0
    /\ UNCHANGED <<timeout, clock, deadline, parentDone, ctxErr, tmpc,
                   statusCode, handlerCode, fired, set504, waitFired,
                   tvars, rvars>>

\* next.ServeHTTPC returns, having set a status code
WrappedReturn(code) ==
    /\ tmpc = "handler"
    /\ work = 0
    /\ statusCode' = code
    /\ handlerCode' = code
    /\ tmpc' = "cancel"
    /\ UNCHANGED <<timeout, clock, deadline, parentDone, ctxErr, work, fired,
                   set504, waitFired,
                   tvars, rvars>>

\* the deferred function, first statement: cancel()
TimeoutCancel ==
    /\ tmpc = "cancel"
    /\ ctxErr' = IF ctxErr = "nil" THEN "Canceled" ELSE ctxErr
    /\ tmpc' = "check"
    /\ UNCHANGED <<timeout, clock, deadline, parentDone, statusCode,
                   handlerCode, work, fired, set504, waitFired,
                   tvars, rvars>>

\* mutant: 504 for every error of the context
TimeoutCheckAnyErr ==
    /\ tmpc = "check"
    /\ IF ctxErr # "nil"
       THEN statusCode' = StatusGatewayTimeout /\ set504' = TRUE
       ELSE UNCHANGED <<statusCode, set504>>
    /\ tmpc' = "done"
    /\ UNCHANGED <<timeout, clock, deadline, parentDone, ctxErr, handlerCode,
                   work, fired, waitFired,
                   tvars, rvars>>

\* the deferred function, second statement:
\* if ctx.Err() == context.DeadlineExceeded { fctx.SetStatusCode(504) }
TimeoutCheck ==
    /\ tmpc = "check"
    /\ IF ctxErr = "DeadlineExceeded"
       THEN statusCode' = StatusGatewayTimeout /\ set504' = TRUE
       ELSE UNCHANGED <<statusCode, set504>>
    /\ tmpc' = "done"
    /\ UNCHANGED <<timeout, clock, deadline, parentDone, ctxErr, handlerCode,
                   work, fired, waitFired,
                   tvars, rvars>>

\* ------------------------------------------------------------------------
\* Throttler
\* ------------------------------------------------------------------------
StatusServiceUnavailable == 503
StatusOK == 200

errCapacityExceeded == "Server capacity exceeded."
errTimedOut == "Timed out while waiting for a pending request to complete."
errContextCanceled == "Context was canceled."

NoResp == [status |-> 0, body |-> ""]

\* fctx.Error(msg, code)
Error(msg, code) == [status |-> code, body |-> msg]

\* mutant: the queue semaphore is made and filled for limit requests only
ThrottleBacklogNoQueue(l, b) ==
    IF l < 1 \/ b < 0
    THEN [panic |-> TRUE, tokens |-> 0, backlogTokens |-> 0]
    ELSE [panic |-> FALSE, tokens |-> l, backlogTokens |-> l]

\* mutant: the arguments are not checked
ThrottleBacklogNoCheck(l, b) ==
    [panic |-> FALSE,
     tokens |-> Cardinality({i \in 0..(l + b - 1) : i < l}),
     backlogTokens |-> Cardinality(0..(l + b - 1))]

\* ThrottleBacklog: the argument checks and the filling loop.
ThrottleBacklog(l, b) ==
    IF l < 1 \/ b < 0
    THEN [panic |-> TRUE, tokens |-> 0, backlogTokens |-> 0]
    ELSE [panic |-> FALSE,
          tokens |-> Cardinality({i \in 0..(l + b - 1) : i < l}),
          backlogTokens |-> Cardinality(0..(l + b - 1))]

\* capacities of the two channels made by ThrottleBacklog
CapTokens == limit
CapBacklogTokens == limit + backlogLimit

TInit ==
    /\ limit \in 0..MaxLimit
    /\ backlogLimit \in (0 - 1)..MaxBacklog
    /\ tpanic = ThrottleBacklog(limit, backlogLimit).panic
    /\ tokens = ThrottleBacklog(limit, backlogLimit).tokens
    /\ backlogTokens = ThrottleBacklog(limit, backlogLimit).backlogTokens
    /\ pc = [r \in Reqs |-> "idle"]
    /\ ctxDone = [r \in Reqs |-> FALSE]
    /\ timerC = [r \in Reqs |-> FALSE]
    /\ tok = [r \in Reqs |-> FALSE]
    /\ btok = [r \in Reqs |-> FALSE]
    /\ invoked = [r \in Reqs |-> FALSE]
    /\ resp = [r \in Reqs |-> NoResp]
    /\ RouterIdle
    /\ TimeoutIdle

\* The request's context is cancelled (by the client, a parent or a deadline).
Cancel(r) ==
    /\ ~tpanic
    /\ pc[r] \in {"idle", "wait", "handler"}
    /\ ~ctxDone[r]
    /\ ctxDone' = [ctxDone EXCEPT ![r] = TRUE]
    /\ UNCHANGED <<limit, backlogLimit, tpanic, tokens, backlogTokens, pc,
                   timerC, tok, btok, invoked, resp, rvars, mvars>>

\* The backlog timer of a waiting request fires.
TimerFire(r) ==
    /\ pc[r] = "wait"
    /\ ~timerC[r]
    /\ timerC' = [timerC EXCEPT ![r] = TRUE]
    /\ UNCHANGED <<limit, backlogLimit, tpanic, tokens, backlogTokens, pc,
                   ctxDone, tok, btok, invoked, resp, rvars, mvars>>

\* outer select, case <-ctx.Done()
EnterCanceled(r) ==
    /\ ~tpanic
    /\ pc[r] = "idle"
    /\ ctxDone[r]
    /\ resp' = [resp EXCEPT ![r] = Error(errContextCanceled, StatusServiceUnavailable)]
    /\ pc' = [pc EXCEPT ![r] = "done"]
    /\ UNCHANGED <<limit, backlogLimit, tpanic, tokens, backlogTokens,
                   ctxDone, timerC, tok, btok, invoked, rvars, mvars>>

\* mutant: the receive from t.backlogTokens succeeds on an empty channel
EnterBacklogNoBlock(r) ==
    /\ ~tpanic
    /\ pc[r] = "idle"
    /\ backlogTokens' = IF backlogTokens > 0 THEN backlogTokens - 1 ELSE 0
    /\ btok' = [btok EXCEPT ![r] = TRUE]
    /\ pc' = [pc EXCEPT ![r] = "wait"]
    /\ UNCHANGED <<limit, backlogLimit, tpanic, tokens, ctxDone, timerC, tok,
                   invoked, resp, rvars, mvars>>

\* outer select, case btok := <-t.backlogTokens (timer created, defer pushed)
EnterBacklog(r) ==
    /\ ~tpanic
    /\ pc[r] = "idle"
    /\ backlogTokens > 0
    /\ backlogTokens' = backlogTokens - 1
    /\ btok' = [btok EXCEPT ![r] = TRUE]
    /\ pc' = [pc EXCEPT ![r] = "wait"]
    /\ UNCHANGED <<limit, backlogLimit, tpanic, tokens, ctxDone, timerC, tok,
                   invoked, resp, rvars, mvars>>


\* outer select, default: taken only when no other case is ready
EnterDefault(r) ==
    /\ ~tpanic
    /\ pc[r] = "idle"
    /\ ~ctxDone[r]
    /\ backlogTokens = 0
    /\ resp' = [resp EXCEPT ![r] = Error(errCapacityExceeded, StatusServiceUnavailable)]
    /\ pc' = [pc EXCEPT ![r] = "done"]
    /\ UNCHANGED <<limit, backlogLimit, tpanic, tokens, backlogTokens,
                   ctxDone, timerC, tok, btok, invoked, rvars, mvars>>

\* mutant: on the timer the request goes on into the wrapped handler
WaitTimedOutInvokes(r) ==
    /\ pc[r] = "wait"
    /\ timerC[r]
    /\ invoked' = [invoked EXCEPT ![r] = TRUE]
    /\ pc' = [pc EXCEPT ![r] = "handler"]
    /\ UNCHANGED <<limit, backlogLimit, tpanic, tokens, backlogTokens,
                   ctxDone, timerC, tok, btok, resp, rvars, mvars>>

\* inner select, case <-timer.C
WaitTimedOut(r) ==
    /\ pc[r] = "wait"
    /\ timerC[r]
    /\ resp' = [resp EXCEPT ![r] = Error(errTimedOut, StatusServiceUnavailable)]
    /\ pc' = [pc EXCEPT ![r] = "deferBtok"]
    /\ UNCHANGED <<limit, backlogLimit, tpanic, tokens, backlogTokens,
                   ctxDone, timerC, tok, btok, invoked, rvars, mvars>>

\* mutant: on cancellation the request returns without running its defer
WaitCanceledNoDefer(r) ==
    /\ pc[r] = "wait"
    /\ ctxDone[r]
    /\ resp' = [resp EXCEPT ![r] = Error(errContextCanceled, StatusServiceUnavailable)]
    /\ pc' = [pc EXCEPT ![r] = "done"]
    /\ UNCHANGED <<limit, backlogLimit, tpanic, tokens, backlogTokens,
                   ctxDone, timerC, tok, btok, invoked, rvars, mvars>>

\* inner select, case <-ctx.Done()
WaitCanceled(r) ==
    /\ pc[r] = "wait"
    /\ ctxDone[r]
    /\ resp' = [resp EXCEPT ![r] = Error(errContextCanceled, StatusServiceUnavailable)]
    /\ pc' = [pc EXCEPT ![r] = "deferBtok"]
    /\ UNCHANGED <<limit, backlogLimit, tpanic, tokens, backlogTokens,
                   ctxDone, timerC, tok, btok, invoked, rvars, mvars>>

\* mutant: the receive from t.tokens succeeds on an empty channel
WaitTokenNoBlock(r) ==
    /\ pc[r] = "wait"
    /\ tokens' = IF tokens > 0 THEN tokens - 1 ELSE 0
    /\ tok' = [tok EXCEPT ![r] = TRUE]
    /\ invoked' = [invoked EXCEPT ![r] = TRUE]
    /\ pc' = [pc EXCEPT ![r] = "handler"]
    /\ UNCHANGED <<limit, backlogLimit, tpanic, backlogTokens, ctxDone,
                   timerC, btok, resp, rvars, mvars>>

\* inner select, case tok := <-t.tokens (defer pushed, t.h.ServeHTTPC called)
WaitToken(r) ==
    /\ pc[r] = "wait"
    /\ tokens > 0
    /\ tokens' = tokens - 1
    /\ tok' = [tok EXCEPT ![r] = TRUE]
    /\ invoked' = [invoked EXCEPT ![r] = TRUE]
    /\ pc' = [pc EXCEPT ![r] = "handler"]
    /\ UNCHANGED <<limit, backlogLimit, tpanic, backlogTokens, ctxDone,
                   timerC, btok, resp, rvars, mvars>>


\* mutant: after the handler the queue token is sent back first and the
\* active token is kept
HandlerReturnBtokFirst(r) ==
    /\ pc[r] = "handler"
    /\ resp' = [resp EXCEPT ![r] = [status |-> StatusOK, body |-> "handler"]]
    /\ pc' = [pc EXCEPT ![r] = "deferBtok"]
    /\ UNCHANGED <<limit, backlogLimit, tpanic, tokens, backlogTokens,
                   ctxDone, timerC, tok, btok, invoked, rvars, mvars>>

\* t.h.ServeHTTPC returns
HandlerReturn(r) ==
    /\ pc[r] = "handler"
    /\ resp' = [resp EXCEPT ![r] = [status |-> StatusOK, body |-> "handler"]]
    /\ pc' = [pc EXCEPT ![r] = "deferTok"]
    /\ UNCHANGED <<limit, backlogLimit, tpanic, tokens, backlogTokens,
                   ctxDone, timerC, tok, btok, invoked, rvars, mvars>>

\* mutant: a panic of the wrapped handler skips the deferred functions
HandlerPanicNoDefer(r) ==
    /\ pc[r] = "handler"
    /\ resp' = [resp EXCEPT ![r] = [status |-> 0, body |-> "panic"]]
    /\ pc' = [pc EXCEPT ![r] = "done"]
    /\ UNCHANGED <<limit, backlogLimit, tpanic, tokens, backlogTokens,
                   ctxDone, timerC, tok, btok, invoked, rvars, mvars>>

\* t.h.ServeHTTPC panics: the deferred functions still run
HandlerPanic(r) ==
    /\ pc[r] = "handler"
    /\ resp' = [resp EXCEPT ![r] = [status |-> 0, body |-> "panic"]]
    /\ pc' = [pc EXCEPT ![r] = "deferTok"]
    /\ UNCHANGED <<limit, backlogLimit, tpanic, tokens, backlogTokens,
                   ctxDone, timerC, tok, btok, invoked, rvars, mvars>>

\* mutant: the deferred function sends the active token twice
DeferTokTwice(r) ==
    /\ pc[r] = "deferTok"
    /\ tokens + 2 <= CapTokens
    /\ tokens' = tokens + 2
    /\ tok' = [tok EXCEPT ![r] = FALSE]
    /\ pc' = [pc EXCEPT ![r] = "deferBtok"]
    /\ UNCHANGED <<limit, backlogLimit, tpanic, backlogTokens, ctxDone,
                   timerC, btok, invoked, resp, rvars, mvars>>

\* defer func() { t.tokens <- tok }(): a send, blocks while the channel is full
DeferTok(r) ==
    /\ pc[r] = "deferTok"
    /\ tokens < CapTokens
    /\ tokens' = tokens + 1
    /\ tok' = [tok EXCEPT ![r] = FALSE]
    /\ pc' = [pc EXCEPT ![r] = "deferBtok"]
    /\ UNCHANGED <<limit, backlogLimit, tpanic, backlogTokens, ctxDone,
                   timerC, btok, invoked, resp, rvars, mvars>>


\* defer func() { t.backlogTokens <- btok }()
DeferBtok(r) ==
    /\ pc[r] = "deferBtok"
    /\ backlogTokens < CapBacklogTokens
    /\ backlogTokens' = backlogTokens + 1
    /\ btok' = [btok EXCEPT ![r] = FALSE]
    /\ pc' = [pc EXCEPT ![r] = "done"]
    /\ UNCHANGED <<limit, backlogLimit, tpanic, tokens, ctxDone, timerC, tok,
                   invoked, resp, rvars, mvars>>


TNext ==
    \E r \in Reqs :
        \/ Cancel(r)
        \/ TimerFire(r)
        \/ EnterCanceled(r)
        \/ EnterBacklog(r)
        \/ EnterDefault(r)
        \/ WaitTimedOut(r)
        \/ WaitCanceled(r)
        \/ WaitToken(r)
        \/ HandlerReturn(r)
        \/ HandlerPanic(r)
        \/ DeferTok(r)
        \/ DeferBtok(r)

SpecThrottle == TInit /\ [][TNext]_vars

\* requests executing inside the wrapped handler
InHandler == {r \in Reqs : pc[r] = "handler"}

\* requests inside the throttler: waiting, in the handler, or unwinding
Inside == {r \in Reqs : pc[r] \in {"wait", "handler", "deferTok", "deferBtok"}}

\* requests holding a token of t.backlogTokens
QueueHolders == {r \in Reqs : btok[r]}

\* ------------------------------------------------------------------------
\* Claims about the throttler
\* ------------------------------------------------------------------------

\* C1: in every reachable state the number of requests executing inside the
\* wrapped handler is at most limit.
C1_InFlightAtMostLimit ==
    ~tpanic => Cardinality(InHandler) <= limit

\* C1 witness: the handler region is saturated (limit requests in it) while
\* another request is blocked waiting for a token.
C1_Witness ==
    /\ ~tpanic
    /\ Cardinality(InHandler) = limit
    /\ \E r \in Reqs : pc[r] = "wait" /\ ~ctxDone[r] /\ ~timerC[r]

\* C10: at most limit + backlog requests are inside the throttler, and a
\* request with a live context that enters while limit + backlog requests hold
\* queue tokens is answered 503 "capacity exceeded" in that very step, without
\* the wrapped handler being invoked.
C10_CapacityExceeded ==
    /\ [](~tpanic => Cardinality(Inside) <= limit + backlogLimit)
    /\ [][\A r \in Reqs :
            (/\ pc[r] = "idle"
             /\ pc'[r] # "idle"
             /\ ~ctxDone[r]
             /\ Cardinality(QueueHolders) = limit + backlogLimit)
            => (/\ pc'[r] = "done"
                /\ resp'[r] = Error(errCapacityExceeded, StatusServiceUnavailable)
                /\ ~invoked'[r])]_vars

\* C10 witness: a request was turned away with "capacity exceeded" while
\* limit + backlog other requests are inside the throttler.
C10_Witness ==
    /\ ~tpanic
    /\ Cardinality(Inside) = limit + backlogLimit
    /\ \E r \in Reqs :
          /\ pc[r] = "done"
          /\ ~ctxDone[r]
          /\ ~invoked[r]
          /\ resp[r] = Error(errCapacityExceeded, StatusServiceUnavailable)

\* requests holding a token of t.tokens
ActiveHolders == {r \in Reqs : tok[r]}

\* requests that have not entered the throttler or have returned from it
Outside == {r \in Reqs : pc[r] \in {"idle", "done"}}

\* C11: every exit path of the throttler returns the tokens the request
\* acquired: the tokens in the active semaphore plus the requests holding one
\* are limit, the tokens in the queue semaphore plus the requests holding one
\* are limit + backlog, a request outside the throttler holds no token, and
\* both semaphores are full whenever no request is inside.
C11_TokensConserved ==
    ~tpanic =>
        /\ tokens + Cardinality(ActiveHolders) = limit
        /\ backlogTokens + Cardinality(QueueHolders) = limit + backlogLimit
        /\ \A r \in Outside : ~tok[r] /\ ~btok[r]
        /\ Inside = {} => /\ tokens = limit
                          /\ backlogTokens = limit + backlogLimit

\* C11 witness: every request has returned, one through a panic of the
\* wrapped handler and one through the backlog timer, and both semaphores
\* are full again.
C11_Witness ==
    /\ ~tpanic
    /\ \A r \in Reqs : pc[r] = "done"
    /\ \E r \in Reqs : resp[r].body = "panic"
    /\ \E r \in Reqs : resp[r] = Error(errTimedOut, StatusServiceUnavailable)
    /\ tokens = limit
    /\ backlogTokens = limit + backlogLimit

C14_TwoRequestsLimitOne ==
    /\ []((~tpanic /\ limit = 1) => Cardinality(InHandler) <= 1)
    /\ [][\A r \in Reqs :
            (/\ limit = 1
             /\ backlogLimit >= 0
             /\ pc[r] = "idle"
             /\ pc'[r] # "idle"
             /\ ~ctxDone[r]
             /\ Cardinality(Inside) = 1)
            => IF backlogLimit = 0
               THEN /\ pc'[r] = "done"
                    /\ resp'[r] = Error(errCapacityExceeded, StatusServiceUnavailable)
                    /\ ~invoked'[r]
               ELSE /\ pc'[r] = "wait"
                    /\ btok'[r]]_vars
    /\ [][\A r \in Reqs :
            (/\ limit = 1
             /\ backlogLimit >= 1
             /\ pc[r] = "wait"
             /\ pc'[r] # "wait"
             /\ tokens > 0
             /\ ~timerC[r]
             /\ ~ctxDone[r])
            => (/\ pc'[r] = "handler"
                /\ invoked'[r]
                /\ InHandler = {})]_vars
    /\ [][\A r \in Reqs :
            (pc[r] = "handler" /\ pc'[r] # "handler" /\ resp'[r].body # "panic")
            => resp'[r] = [status |-> StatusOK, body |-> "handler"]]_vars

\* C14 witness: limit 1 and backlog 1; the first request was served and has
\* given its active token back, the second, queued meanwhile (it holds a
\* queue token, the first has not returned its own yet), is in the handler.
C14_Witness ==
    /\ ~tpanic
    /\ limit = 1
    /\ backlogLimit = 1
    /\ \E r \in Reqs :
          /\ pc[r] = "deferBtok"
          /\ resp[r] = [status |-> StatusOK, body |-> "handler"]
          /\ \E o \in Reqs \ {r} :
                pc[o] = "handler" /\ ~timerC[o] /\ ~ctxDone[o]

\* no request has entered the throttler yet: the state ThrottleBacklog left
Fresh == \A r \in Reqs : pc[r] = "idle"

\* C28: ThrottleBacklog with limit < 1 or backlog < 0 fails at construction
\* and returns no middleware (no request ever enters); with any other
\* arguments the active semaphore is filled with limit tokens and the queue
\* semaphore with limit + backlog tokens.
C28_ConstructionChecked ==
    /\ tpanic <=> (limit < 1 \/ backlogLimit < 0)
    /\ tpanic => /\ Fresh
                 /\ \A r \in Reqs : resp[r] = NoResp /\ ~invoked[r]
    /\ (~tpanic /\ Fresh) => /\ tokens = limit
                             /\ backlogTokens = limit + backlogLimit

\* C28 witness: construction with a negative backlog and a valid limit
\* has failed.
C28_Witness ==
    /\ limit = 1
    /\ backlogLimit < 0
    /\ tpanic
    /\ Fresh

\* C29: a request takes its queue token before its active token and gives
\* the active token back before the queue token: a request holding an active
\* token holds a queue token, in every reachable state and across each step.
C29_QueueTokenOutlivesActive ==
    /\ [](\A r \in Reqs : tok[r] => btok[r])
    /\ [][\A r \in Reqs :
            /\ (tok'[r] /\ ~tok[r]) => (btok[r] /\ btok'[r])
            /\ (btok[r] /\ ~btok'[r]) => ~tok[r]]_vars

\* C29 witness: a request that was in the handler has given its active
\* token back and still holds its queue token.
C29_Witness ==
    \E r \in Reqs :
        /\ pc[r] = "deferBtok"
        /\ invoked[r]
        /\ ~tok[r]
        /\ btok[r]

\* C32 (as claimed): a request that enters the throttler with its context
\* canceled, while a queue token and an active token are available, takes
\* the branch of ctx.Done(): it is answered 503 "Context was canceled." and
\* is done.
C32_CanceledAtEntryNeverAdmitted ==
    [][\A r \in Reqs :
          (/\ pc[r] = "idle" /\ pc'[r] # "idle"
           /\ ctxDone[r] /\ backlogTokens > 0 /\ tokens > 0)
          => /\ pc'[r] = "done"
             /\ resp'[r] = Error(errContextCanceled, StatusServiceUnavailable)]_vars

\* a step of request r inside the throttler: the backlog timer fires, a
\* select with a ready case goes on, the wrapped handler returns or panics,
\* a deferred send is done
Progress(r) ==
    \/ TimerFire(r)
    \/ WaitTimedOut(r) \/ WaitCanceled(r) \/ WaitToken(r)
    \/ HandlerReturn(r) \/ HandlerPanic(r)
    \/ DeferTok(r)
    \/ DeferBtok(r)

\* the scheduler and the provisos of the claim: a request that can take a
\* step for ever does take one
ThrottleFairness == \A r \in Reqs : WF_vars(Progress(r))

\* Throttle(1) with a backlog: the requests contend for one active token
LiveInit == TInit /\ limit = 1 /\ backlogLimit >= 0

SpecThrottleLive == LiveInit /\ [][TNext]_vars /\ ThrottleFairness

\* C33: every request that has entered the throttler gets out of it, and a
\* deferred send never finds its channel full: neither channel ever holds
\* more tokens than its capacity, and a request about to send a token back
\* finds room for it.
C33_EveryRequestReturns ==
    /\ \A r \in Reqs : (pc[r] # "idle") ~> (pc[r] = "done")
    /\ [](~tpanic =>
          /\ tokens <= CapTokens
          /\ backlogTokens <= CapBacklogTokens
          /\ \A r \in Reqs :
                /\ pc[r] = "deferTok" => tokens < CapTokens
                /\ pc[r] = "deferBtok" => backlogTokens < CapBacklogTokens)

\* C33 witness: a request waited for an active token while another one was
\* in the handler, its timer fired, and it is out with 503 and its queue
\* token back.
C33_Witness ==
    \E r \in Reqs, o \in Reqs :
        /\ pc[r] = "done"
        /\ timerC[r]
        /\ ~invoked[r]
        /\ ~btok[r]
        /\ resp[r] = Error(errTimedOut, StatusServiceUnavailable)
        /\ pc[o] = "handler"


\* ------------------------------------------------------------------------
\* Specification Spec: one Mux, routes registered with Get and Handle, a
\* NotFound handler, then requests
\* ------------------------------------------------------------------------
MaxRoutes == 3

PRoot == <<"/">>
PPing == <<"/", "ping">>
PPingAll == <<"/", "ping", "/", "all">>
PPingId == <<"/", "ping", "/", ":", "id">>
PPingOther == <<"/", "ping", "/", ":", "other">>
PPingIdWoop == <<"/", "ping", "/", ":", "id", "/", "woop">>
PPingStar == <<"/", "ping", "/", "*">>
PStarWoop == <<"/", "ping", "/", "*", "/", "woop">>

Patterns ==
    {PRoot, PPing, PPingAll, PPingId, PPingOther, PPingIdWoop, PPingStar,
     PStarWoop}

Paths ==
    {<<"/">>,
     <<"/", "ping">>,
     <<"/", "ping", "/">>,
     <<"/", "ping", "/", "all">>,
     <<"/", "ping", "/", "all", "an">>,
     <<"/", "ping", "/", "123">>,
     <<"/", "ping", "/", "123", "/", "woop">>,
     <<"/", "ping", "/", "all", "/", "woop">>,
     <<"/", "ping", "/", "123", "/", "x">>,
     <<"/", "hello">>}

ServeMethods == {"GET", "HEAD", "DIE"}

H1 == UserHandler("h1", 200)
H2 == UserHandler("h2", 200)
NothingHere == UserHandler("nothing here", 404)

\* the throttler is not part of the router specifications
ThrottleIdle ==
    /\ limit = 1
    /\ backlogLimit = 0
    /\ tpanic = FALSE
    /\ tokens = 1
    /\ backlogTokens = 1
    /\ pc = [r \in Reqs |-> "idle"]
    /\ ctxDone = [r \in Reqs |-> FALSE]
    /\ timerC = [r \in Reqs |-> FALSE]
    /\ tok = [r \in Reqs |-> FALSE]
    /\ btok = [r \in Reqs |-> FALSE]
    /\ invoked = [r \in Reqs |-> FALSE]
    /\ resp = [r \in Reqs |-> NoResp]

Init == RouterIdle /\ ThrottleIdle /\ TimeoutIdle

\* r.Get(pattern, h)
RegisterGet(p, h) ==
    /\ Wiring
    /\ Cardinality(RegPatterns(Root) \cup {p}) <= MaxRoutes
    /\ Apply(Get(World, Root, p, <<h>>))

\* r.Handle("/ping", h)
RegisterHandle(h) ==
    /\ Wiring
    /\ Cardinality(RegPatterns(Root) \cup {PPing}) <= MaxRoutes
    /\ Apply(Handle(World, Root, PPing, <<h>>))

\* r.NotFound(h)
SetNotFound(mx, h) ==
    /\ Wiring
    /\ Apply(NotFound(World, mx, h))

Next ==
    \/ \E p \in Patterns, h \in {H1, H2} : RegisterGet(p, h)
    \/ \E h \in {H1, H2} : RegisterHandle(h)
    \/ SetNotFound(Root, NothingHere)
    \/ \E m \in ServeMethods, q \in Paths : Serve(m, q)

Spec == Init /\ [][Next]_vars

\* ------------------------------------------------------------------------
\* What a pattern matches, stated on the pattern alone
\* ------------------------------------------------------------------------
\* the keys ks match the segments segs completely
RECURSIVE MatchKeys(_, _)
MatchKeys(ks, segs) ==
    IF ks = <<>> THEN segs = <<>>
    ELSE IF segs = <<>> THEN FALSE
    ELSE CASE ks[1].typ = "static" ->
                 segs[1] = ks[1].s /\ MatchKeys(Tail(ks), Tail(segs))
           [] ks[1].typ = "param" ->
                 segs[1] # <<>> /\ MatchKeys(Tail(ks), Tail(segs))
           [] ks[1].typ = "catchall" -> Len(ks) = 1

Matches(pattern, path) == MatchKeys(PatternKeys(pattern), Segments(path))

\* the parameters a matching pattern captures from the path
Captures(pattern, path) ==
    LET ks == PatternKeys(pattern)
        segs == Segments(path)
        named == {i \in 1..Len(ks) : ks[i].typ # "static"}
    IN [k \in {ks[i].s : i \in named} |->
           LET i == CHOOSE j \in named : ks[j].s = k
           IN IF ks[i].typ = "param" THEN segs[i]
              ELSE Join(SubSeq(segs, i, Len(segs)))]

Rank(typ) == CASE typ = "static" -> 0 [] typ = "param" -> 1 [] typ = "catchall" -> 2

\* pattern a is preferred to pattern b: where their keys first differ, a has
\* the kind of higher precedence
Preferred(a, b) ==
    LET ka == PatternKeys(a)
        kb == PatternKeys(b)
        diff == {i \in 1..Len(ka) : i > Len(kb) \/ ka[i] # kb[i]}
    IN /\ diff # {}
       /\ LET i == CHOOSE j \in diff : \A k \in diff : j <= k
          IN i <= Len(kb) /\ Rank(ka[i].typ) < Rank(kb[i].typ)

\* the registrations of the root Mux that match the served request
Matching ==
    IF muxes[Root].routes = "nil" THEN {}
    ELSE {g \in regs[muxes[Root].routes] :
             g.mt = last.method /\ Matches(g.pattern, last.path)}

\* the events of the served request that are calls of a registered handler
HandlerEvents ==
    {i \in 1..Len(last.res.trace) : last.res.trace[i].ev = "handler"}

\* the served request was answered by the terminal handler of registration g
\* with exactly the parameters the pattern of g captures
AnsweredBy(g) ==
    /\ ~last.res.panic
    /\ \E i \in HandlerEvents :
          /\ last.res.trace[i].id = g.handlers[Len(g.handlers)].id
          /\ last.res.trace[i].params = Captures(g.pattern, last.path)
    /\ last.res.body = g.handlers[Len(g.handlers)].id

NativeServed == last.served /\ last.method \in NativeMethods /\ muxes[Root].routes # "nil"

\* ------------------------------------------------------------------------
\* Claims about lookup
\* ------------------------------------------------------------------------

\* C2: a request is answered by the handler of a registered pattern that
\* matches the whole path, which sees each parameter segment under its name;
\* when no registered pattern matches the whole path, Find returns nil (no
\* handler runs and the Mux answers not found).
C2_FindMatchesWholePath ==
    NativeServed =>
        IF Matching = {}
        THEN /\ HandlerEvents = {}
             /\ \E i \in 1..Len(last.res.trace) :
                   last.res.trace[i] = [ev |-> "notfound", mux |-> Root]
        ELSE \E g \in Matching : AnsweredBy(g)

\* C2 witness: GET /ping/123 is answered by the handler of /ping/:id with
\* id = 123.
C2_Witness ==
    /\ NativeServed
    /\ last.path = <<"/", "ping", "/", "123">>
    /\ \E g \in Matching : g.pattern = PPingId /\ AnsweredBy(g)
    /\ \E i \in HandlerEvents :
          last.res.trace[i].params = [k \in {<<"id">>} |-> <<"123">>]

\* C3: among the registered patterns that match the whole path, the request
\* is answered by the one whose segment kinds are preferred level by level
\* (static before parameter before catch-all), in every reachable state,
\* hence whatever the registration order; /ping/allan is not taken by the
\* static child "all" but by the parameter child.
C3_StaticParamCatchAll ==
    NativeServed =>
        /\ \A g \in Matching :
              (\A o \in Matching \ {g} : Preferred(g.pattern, o.pattern))
              => AnsweredBy(g)
        /\ (/\ last.path = <<"/", "ping", "/", "all", "an">>
            /\ \E g \in Matching : g.pattern \in {PPingId, PPingOther})
           => \E g \in Matching :
                 /\ g.pattern \in {PPingId, PPingOther}
                 /\ AnsweredBy(g)

\* C3 witness: /ping/all, /ping/:id and /ping/* are all registered and
\* GET /ping/all is answered by the handler of the static pattern.
C3_Witness ==
    /\ NativeServed
    /\ last.path = PPingAll
    /\ {PPingAll, PPingId, PPingStar} \subseteq {g.pattern : g \in Matching}
    /\ \E g \in Matching : g.pattern = PPingAll /\ AnsweredBy(g)
    /\ \E i \in HandlerEvents : last.res.trace[i].params = EmptyMap

\* C8 (as claimed): a request with a native method whose path matches no
\* route of that method is answered by the Mux's NotFound handler: status
\* 404, that handler's body, and no route handler runs.
C8_NotFoundHandlerAnswers ==
    (/\ NativeServed
     /\ Matching = {}
     /\ muxes[Root].notFound # NilH)
    => /\ last.res.status = 404
       /\ last.res.body = muxes[Root].notFound.id
       /\ \A g \in regs[muxes[Root].routes] : ~AnsweredBy(g)

\* C9 (as claimed): a request whose method is not native is answered 405
\* "Method Not Allowed" with an Allow header listing the supported methods,
\* and dispatch does not fail.
C9_MethodNotAllowed ==
    (last.served /\ last.method \notin NativeMethods)
    => /\ ~last.res.panic
       /\ last.res.status = methodNotAllowedHandler.status
       /\ last.res.body = methodNotAllowedHandler.body
       /\ last.res.allow = NativeMethods
       /\ HandlerEvents = {}

\* ------------------------------------------------------------------------
\* Specification SpecChain: one Mux with a middleware stack, a route
\* registered with inline middlewares, then a request
\* ------------------------------------------------------------------------
MaxStack == 2
MaxInline == 2

M1 == Middleware("m1", TRUE)
M2 == Middleware("m2", TRUE)
\* a middleware that answers itself and never calls next
MStop == Middleware("stop", FALSE)

ChainMws == {M1, M2, MStop}

\* the sequences over S of length at most n
SeqsUpTo(S, n) == UNION {[1..k -> S] : k \in 0..n}

\* r.Use(mw)
UseMw(mw) ==
    /\ Wiring
    /\ Len(muxes[Root].middlewares) < MaxStack
    /\ Apply(Use(World, Root, <<mw>>))

\* r.Get("/ping", inline..., h)
RegisterChain(inline, h) ==
    /\ Wiring
    /\ PPing \notin RegPatterns(Root)
    /\ Apply(Get(World, Root, PPing, inline \o <<h>>))

ChainNext ==
    \/ \E mw \in ChainMws : UseMw(mw)
    \/ \E inline \in SeqsUpTo(ChainMws, MaxInline) : RegisterChain(inline, H1)
    \/ \E q \in {PPing, <<"/", "hello">>} : Serve("GET", q)

SpecChain == Init /\ [][ChainNext]_vars

\* the events a request matched to registration g must produce, after the
\* lookup: the middlewares of the stack as it was at registration, then the
\* inline ones, entered in order up to the first that does not call next,
\* the handler if all of them call next, and the exits in reverse
ExpectedEvents(g) ==
    LET all == g.stack \o SubSeq(g.handlers, 1, Len(g.handlers) - 1)
        hd == g.handlers[Len(g.handlers)]
        stops == {i \in 1..Len(all) : ~all[i].calls}
        n == IF stops = {} THEN Len(all)
             ELSE CHOOSE i \in stops : \A j \in stops : i <= j
    IN [i \in 1..n |-> [ev |-> "enter", mw |-> all[i].id]]
       \o (IF stops = {}
           THEN <<[ev |-> "handler", id |-> hd.id,
                   params |-> Captures(g.pattern, last.path), sub |-> FALSE]>>
           ELSE <<>>)
       \o [i \in 1..n |-> [ev |-> "exit", mw |-> all[n + 1 - i].id]]

\* C4: a request matched to a route enters the middlewares of the Mux's
\* stack in order, then the inline middlewares in order, then the handler,
\* and leaves them in the reverse order; a middleware that does not call
\* next keeps everything after it from running.
C4_MiddlewareOrder ==
    NativeServed =>
        \A g \in Matching :
            last.res.trace =
                <<[ev |-> "lookup", mux |-> Root, path |-> last.path]>>
                \o ExpectedEvents(g)

\* C4 witness: a route with two stack middlewares and an inline one, all
\* calling next, was served: five events around the handler.
C4_Witness ==
    /\ NativeServed
    /\ \E g \in Matching :
          /\ g.stack = <<M1, M2>>
          /\ Len(g.handlers) >= 2
          /\ \A i \in 1..(Len(g.handlers) - 1) : g.handlers[i].calls
    /\ HandlerEvents # {}

\* ------------------------------------------------------------------------
\* Specification SpecStack: one Mux with a middleware stack, two routes,
\* and several requests one after the other
\* ------------------------------------------------------------------------
MaxRequests == 3

PHi == <<"/", "hi">>

\* r.Get("/", inCtxmw, h) and r.Get("/hi", h2)
StackRoutes ==
    {[pattern |-> PRoot, handlers |-> <<M2, H1>>],
     [pattern |-> PHi, handlers |-> <<H2>>]}

StackPaths == {PRoot, PHi, PPing}

\* r.Get(pattern, handlers...), each route once
RegisterRoute(rt) ==
    /\ Wiring
    /\ rt.pattern \notin RegPatterns(Root)
    /\ Apply(Get(World, Root, rt.pattern, rt.handlers))

\* the root Mux serves one more request
ServeMore(method, path) ==
    /\ ~crashed
    /\ Len(served) < MaxRequests
    /\ last' = [served |-> TRUE, method |-> method, path |-> path,
                res |-> ServeHTTP(Root, [method |-> method, path |-> path])]
    /\ served' = Append(served, last')
    /\ UNCHANGED <<muxes, trees, crashed, regs, mounts, inits, groups, th,
                   tvars, mvars>>

StackNext ==
    \/ \E mw \in {M1, MStop} : UseMw(mw)
    \/ \E rt \in StackRoutes : RegisterRoute(rt)
    \/ \E q \in StackPaths : ServeMore("GET", q)

SpecStack == Init /\ [][StackNext]_vars

\* how often the factory of middleware id was invoked
Inits(id) == Cardinality({i \in 1..Len(inits) : inits[i] = id})

\* how often middleware id occurs in the stack of the root Mux
StackCount(id) ==
    Cardinality({i \in 1..Len(muxes[Root].middlewares) :
                    muxes[Root].middlewares[i].id = id})

\* how often the handler made by middleware id was entered in a trace
Enters(trace, id) ==
    Cardinality({i \in 1..Len(trace) :
                    trace[i].ev = "enter" /\ trace[i].mw = id})

\* every route of the root Mux was registered with the stack as it is now
StackComplete ==
    /\ muxes[Root].routes # "nil"
    /\ \A g \in regs[muxes[Root].routes] : g.stack = muxes[Root].middlewares

\* C15 (as claimed): a middleware factory added with Use is invoked exactly
\* once, however many routes are registered and requests served, and the
\* handler it returned runs once per dispatched request.
C15_FactoryInvokedOnce ==
    (StackComplete /\ RegPatterns(Root) # {}) =>
        \A i \in 1..Len(muxes[Root].middlewares) :
            LET id == muxes[Root].middlewares[i].id
            IN StackCount(id) = 1 =>
                  /\ Inits(id) = 1
                  /\ \A k \in 1..Len(served) :
                        Enters(served[k].res.trace, id) <= 1

\* C16 (as claimed): the middlewares added with Use run for every request
\* dispatched to the Mux, also when the path matches no route, so the first
\* middleware of the stack is entered, and answers if it does not call next.
C16_StackRunsOnEveryRequest ==
    (last.served /\ StackComplete /\ muxes[Root].middlewares # <<>>) =>
        LET first == muxes[Root].middlewares[1]
        IN /\ Enters(last.res.trace, first.id) >= 1
           /\ ~first.calls => last.res.body = first.id

\* ------------------------------------------------------------------------
\* Specification SpecMethods: one Mux, a pattern registered per method and
\* a pattern registered with Handle, then a request under any native method
\* ------------------------------------------------------------------------
PAdminStar == <<"/", "admin", "/", "*">>

ping == UserHandler("ping", 200)
headPing == UserHandler("headPing", 200)
createPing == UserHandler("createPing", 201)
catchAll == UserHandler("catchall", 200)

\* the handler each per-method registrar is given for /ping
MethodHandler == [m \in {"GET", "HEAD", "POST"} |->
                     CASE m = "GET" -> ping
                       [] m = "HEAD" -> headPing
                       [] m = "POST" -> createPing]

MethodPaths ==
    {PPing,
     <<"/", "admin", "/", "catch-this">>,
     <<"/", "admin", "/", "a", "/", "b">>,
     <<"/", "other">>}

\* m.Get("/ping", ping)
RegisterPingGet ==
    /\ Wiring
    /\ Apply(Get(World, Root, PPing, <<MethodHandler["GET"]>>))

\* m.Head("/ping", headPing)
RegisterPingHead ==
    /\ Wiring
    /\ Apply(MuxHead(World, Root, PPing, <<MethodHandler["HEAD"]>>))

\* m.Post("/ping", createPing)
RegisterPingPost ==
    /\ Wiring
    /\ Apply(Post(World, Root, PPing, <<MethodHandler["POST"]>>))

\* m.Handle("/admin/*", catchAll)
RegisterCatchAll ==
    /\ Wiring
    /\ Apply(Handle(World, Root, PAdminStar, <<catchAll>>))

MethodsNext ==
    \/ RegisterPingGet
    \/ RegisterPingHead
    \/ RegisterPingPost
    \/ RegisterCatchAll
    \/ \E m \in NativeMethods, q \in MethodPaths : Serve(m, q)

SpecMethods == Init /\ [][MethodsNext]_vars

\* the ids of the handlers the served request reached
ReachedHandlers == {last.res.trace[i].id : i \in HandlerEvents}

\* C17: after Handle(pattern, h), a request for a matching path reaches h
\* under each of the nine native methods.
C17_HandleAllMethods ==
    (/\ last.served
     /\ last.method \in NativeMethods
     /\ PAdminStar \in RegPatterns(Root)
     /\ Matches(PAdminStar, last.path))
    => /\ ReachedHandlers = {catchAll.id}
       /\ last.res.body = catchAll.id
       /\ last.res.status = catchAll.status

\* C17 witness: a TRACE request below /admin/ was answered by the handler
\* given to Handle.
C17_Witness ==
    /\ last.served
    /\ last.method = "TRACE"
    /\ last.path = <<"/", "admin", "/", "a", "/", "b">>
    /\ last.res.body = catchAll.id
    /\ Cardinality({g.mt : g \in {x \in regs[muxes[Root].routes] :
                                      x.pattern = PAdminStar}}) = 9

\* C18: a handler registered with a per-method registrar is reached only
\* through that method: a request for /ping reaches the handler registered
\* for /ping under its own method if there is one, and no handler at all
\* otherwise (a HEAD request is not served by the GET handler).
C18_PerMethodOnly ==
    (last.served /\ last.path = PPing /\ muxes[Root].routes # "nil") =>
        LET own == IF last.method \in DOMAIN MethodHandler
                   THEN {g \in regs[muxes[Root].routes] :
                            /\ g.pattern = PPing
                            /\ g.handlers = <<MethodHandler[last.method]>>}
                   ELSE {}
        IN IF own # {}
           THEN /\ ReachedHandlers = {MethodHandler[last.method].id}
                /\ last.res.status = MethodHandler[last.method].status
           ELSE /\ ReachedHandlers = {}
                /\ last.res.status = 404

\* C18 witness: /ping is registered under GET alone and a HEAD request for
\* it got 404 without reaching the GET handler.
C18_Witness ==
    /\ last.served
    /\ last.method = "HEAD"
    /\ last.path = PPing
    /\ muxes[Root].routes # "nil"
    /\ {g.handlers : g \in regs[muxes[Root].routes]} = {<<ping>>}
    /\ ReachedHandlers = {}
    /\ last.res.status = 404

\* ------------------------------------------------------------------------
\* Specification SpecGroup: a root Mux and the Muxes made by Group on it,
\* each with its own middleware and its own route, then a request
\* ------------------------------------------------------------------------
GroupIds == {"sr1", "sr2"}

\* the route each Mux registers
GroupPattern == [mx \in MuxIds |->
                    CASE mx = "r" -> PRoot
                      [] mx = "sr1" -> <<"/", "group">>
                      [] mx = "sr2" -> <<"/", "favicon.ico">>]

GroupHandler == [mx \in MuxIds |->
                    CASE mx = "r" -> UserHandler("root", 200)
                      [] mx = "sr1" -> UserHandler("root group", 200)
                      [] mx = "sr2" -> UserHandler("fav", 200)]

\* the middleware each Mux adds with Use
GroupMw == [mx \in MuxIds |->
               CASE mx = "r" -> Middleware("requestID", TRUE)
                 [] mx = "sr1" -> Middleware("stdmw", TRUE)
                 [] mx = "sr2" -> Middleware("session.user", TRUE)]

GroupPaths == {GroupPattern[mx] : mx \in MuxIds} \cup {<<"/", "nope">>}

\* the Muxes there are: the root and those Group has made
Made == {Root} \cup {g \in GroupIds : groups[g].set}

\* r.Group(fn), making g
MakeGroup(g) ==
    /\ Wiring
    /\ ~groups[g].set
    /\ Apply(Group(World, Root, g))

\* mx.Use(mw)
GroupUse(mx) ==
    /\ Wiring
    /\ mx \in Made
    /\ Len(muxes[mx].middlewares) < MaxStack
    /\ Apply(Use(World, mx, <<GroupMw[mx]>>))

\* mx.Get(pattern, h), each route once
GroupGet(mx) ==
    /\ Wiring
    /\ mx \in Made
    /\ GroupPattern[mx] \notin RegPatterns(mx)
    /\ Apply(Get(World, mx, GroupPattern[mx], <<GroupHandler[mx]>>))

GroupNext ==
    \/ \E g \in GroupIds : MakeGroup(g)
    \/ \E mx \in MuxIds : GroupUse(mx)
    \/ \E mx \in MuxIds : GroupGet(mx)
    \/ \E q \in GroupPaths : Serve("GET", q)

SpecGroup == Init /\ [][GroupNext]_vars

\* Mux mx has registered its route
HasRoute(mx) ==
    /\ muxes[mx].routes # "nil"
    /\ \E g \in regs[muxes[mx].routes] : g.handlers = <<GroupHandler[mx]>>

\* C19 (as claimed): the routes registered inside Group(fn) are stored in
\* the parent's trie set and served through the parent Mux, also when the
\* parent had registered no route of its own before Group was called.
C19_GroupSharesRoutes ==
    \A g \in GroupIds :
        (groups[g].set /\ HasRoute(g)) =>
            /\ muxes[g].routes = muxes[groups[g].parent].routes
            /\ (last.served /\ last.path = GroupPattern[g])
               => /\ ReachedHandlers = {GroupHandler[g].id}
                  /\ last.res.body = GroupHandler[g].id

\* s is the beginning of t
IsPrefix(s, t) == Len(s) <= Len(t) /\ SubSeq(t, 1, Len(s)) = s

\* C20: a Group starts with a copy of the parent's middleware stack as it is
\* when Group is called, and a middleware added with Use inside the group
\* wraps only the routes registered through that group, never those of the
\* parent or of a sibling group.
C20_GroupStackIsACopy ==
    /\ \A i \in 1..Len(muxes[Root].middlewares) :
          muxes[Root].middlewares[i] = GroupMw[Root]
    /\ \A g \in GroupIds :
          groups[g].set =>
             /\ IsPrefix(groups[g].stack, muxes[g].middlewares)
             /\ \A i \in (Len(groups[g].stack) + 1)..Len(muxes[g].middlewares) :
                   muxes[g].middlewares[i] = GroupMw[g]
    /\ \A mx \in MuxIds :
          (last.served /\ ReachedHandlers = {GroupHandler[mx].id}) =>
             /\ \A o \in MuxIds \ {Root, mx} :
                   Enters(last.res.trace, GroupMw[o].id) = 0
             /\ mx # Root =>
                   Enters(last.res.trace, GroupMw[Root].id) = Len(groups[mx].stack)

\* C20 witness: the root and two groups each added a middleware after the
\* groups were made, and the route of the first group was served: entered
\* were the root's middleware copied at Group and the group's own, not the
\* sibling's and not what the root added later.
C20_Witness ==
    /\ last.served
    /\ ReachedHandlers = {GroupHandler["sr1"].id}
    /\ groups["sr1"].stack = <<GroupMw[Root]>>
    /\ Len(muxes[Root].middlewares) = 2
    /\ Enters(last.res.trace, GroupMw[Root].id) = 1
    /\ Enters(last.res.trace, GroupMw["sr1"].id) >= 1
    /\ groups["sr2"].set
    /\ Len(muxes["sr2"].middlewares) > Len(groups["sr2"].stack)

\* ------------------------------------------------------------------------
\* Specification SpecMount: three Muxes, routes, mounts of one Mux in
\* another, NotFound handlers, then a request to the root
\* ------------------------------------------------------------------------
MaxMounts == 2

PSub == <<"/", "sub">>
PAdmin == <<"/", "admin">>
PAcc == <<"/", "acc", "/", ":", "id">>

\* the paths Muxes are mounted at
MountPaths == {PRoot, PAdmin, PAcc}

\* parent and child of a mount: sr1 in r, sr2 in r, sr2 in sr1
MountPairs == {<<"r", "sr1">>, <<"r", "sr2">>, <<"sr1", "sr2">>}

\* the route handler and the NotFound handler of each Mux
SubHandler(mx) ==
    UserHandler(CASE mx = "r" -> "r sub" [] mx = "sr1" -> "sr1 sub"
                  [] mx = "sr2" -> "sr2 sub", 200)

NotFoundHandler(mx) ==
    UserHandler(CASE mx = "r" -> "root 404" [] mx = "sr1" -> "sub 404"
                  [] mx = "sr2" -> "sub2 404", 404)

MountRequestPaths ==
    {<<"/", "sub">>,
     <<"/", "nope">>,
     <<"/", "admin">>,
     <<"/", "admin", "/">>,
     <<"/", "admin", "/", "sub">>,
     <<"/", "admin", "/", "nope">>,
     <<"/", "acc", "/", "44">>,
     <<"/", "acc", "/", "44", "/">>,
     <<"/", "acc", "/", "44", "/", "sub">>,
     <<"/", "admin", "/", "admin">>,
     <<"/", "admin", "/", "admin", "/">>,
     <<"/", "admin", "/", "admin", "/", "sub">>,
     <<"/", "admin", "/", "admin", "/", "nope">>,
     <<"/", "admin", "/", "acc", "/", "44", "/", "sub">>,
     <<"/", "acc", "/", "44", "/", "acc", "/", "45", "/", "sub">>}

NumMounts ==
    Cardinality({<<mx, p>> \in MuxIds \X MountPaths : p \in DOMAIN mounts[mx]})

\* mx.Get("/sub", h)
RegisterSub(mx) ==
    /\ Wiring
    /\ Apply(Get(World, mx, PSub, <<SubHandler(mx)>>))

\* mx.Mount(p, child)
MountMux(mx, p, child) ==
    /\ Wiring
    /\ p \in DOMAIN mounts[mx] \/ NumMounts < MaxMounts
    /\ Apply(Mount(World, mx, p, <<MuxHandler(child)>>))

MountNext ==
    \/ \E mx \in MuxIds : RegisterSub(mx)
    \/ \E pair \in MountPairs, p \in MountPaths : MountMux(pair[1], p, pair[2])
    \/ \E mx \in MuxIds : SetNotFound(mx, NotFoundHandler(mx))
    \/ \E q \in MountRequestPaths : Serve("GET", q)

SpecMount == Init /\ [][MountNext]_vars

\* the lookups of the served request: positions of the trace where a Mux
\* looked a path up
Lookups ==
    {i \in 1..Len(last.res.trace) : last.res.trace[i].ev = "lookup"}

\* the event that follows position i of the trace
After(i) ==
    IF i < Len(last.res.trace) THEN last.res.trace[i + 1] ELSE [ev |-> "none"]

\* path q is exactly an instance of mount path p
Exactly(p, q) == Matches(p, q)

\* path q is an instance of p followed by "/"
WithSlash(p, q) == Matches(p \o <<"/">>, q)

\* path q is an instance of p, "/" and a non-empty rest
Below(p, q) == Matches(p \o <<"/", "*">>, q) /\ ~WithSlash(p, q)

\* what is left of path q below the mount point p
Residual(p, q) ==
    Join(SubSeq(Segments(q), Len(Segments(p)) + 1, Len(Segments(q))))

\* C5 (as claimed): after Mount(p, h) with p other than "/", a request for
\* exactly p, for p followed by "/", and for any path below p + "/" reaches
\* the mounted handler h.
C5_MountReachesAllThree ==
    last.served =>
        \A i \in Lookups :
            LET m == last.res.trace[i].mux
                q == last.res.trace[i].path
            IN \A p \in (DOMAIN mounts[m]) \ {PRoot} :
                   (Exactly(p, q) \/ WithSlash(p, q) \/ Below(p, q))
                   => After(i) = [ev |-> "mount", h |-> mounts[m][p],
                                  sub |-> FALSE]

\* C5 (amended): a request for exactly p and for any path p + "/" + rest
\* with a non-empty rest reaches the mounted handler h; a request for p
\* followed by "/" alone is answered by http.NotFound (404) and h does not
\* run.
C5_MountReachesExactAndBelow ==
    last.served =>
        \A i \in Lookups :
            LET m == last.res.trace[i].mux
                q == last.res.trace[i].path
            IN \A p \in (DOMAIN mounts[m]) \ {PRoot} :
                   /\ (Exactly(p, q) \/ Below(p, q))
                      => After(i) = [ev |-> "mount", h |-> mounts[m][p],
                                     sub |-> FALSE]
                   /\ WithSlash(p, q)
                      => /\ After(i) = [ev |-> "http.NotFound"]
                         /\ i + 1 = Len(last.res.trace)
                         /\ last.res.status = 404

\* C5 witness: a Mux mounted at /acc/:id was reached by a request below the
\* mount point and its own route answered.
C5_Witness ==
    /\ last.served
    /\ last.path = <<"/", "acc", "/", "44", "/", "sub">>
    /\ PAcc \in DOMAIN mounts[Root]
    /\ After(1) = [ev |-> "mount", h |-> mounts[Root][PAcc], sub |-> FALSE]
    /\ last.res.body = SubHandler(mounts[Root][PAcc].id).id

\* C6: a child Mux reached through a mount looks up "/" followed by what the
\* parent's lookup left below the mount point, not the request path (nor the
\* parent's lookup path), and the stored sub-path is unset whenever a Mux
\* invokes the handler it found, at every nesting depth.
C6_ChildLooksUpResidual ==
    last.served =>
        /\ \A i \in 1..Len(last.res.trace) :
              last.res.trace[i].ev \in {"mount", "handler"}
              => ~last.res.trace[i].sub
        /\ \A i \in Lookups :
              LET m == last.res.trace[i].mux
                  q == last.res.trace[i].path
              IN After(i).ev = "mount"
                 => /\ After(i + 1) # [ev |-> "none"]
                    /\ After(i + 1).ev = "lookup"
                    /\ After(i + 1).mux = After(i).h.id
                    /\ \E p \in DOMAIN mounts[m] :
                          /\ mounts[m][p] = After(i).h
                          /\ Exactly(p, q) \/ Below(p, q)
                          /\ After(i + 1).path = <<"/">> \o Residual(p, q)

\* C6 witness: two nested mounts; the innermost Mux looked up /sub for the
\* request /admin/acc/44/sub and its route answered.
C6_Witness ==
    /\ last.served
    /\ last.path = <<"/", "admin", "/", "acc", "/", "44", "/", "sub">>
    /\ Cardinality(Lookups) = 3
    /\ \E i \in Lookups :
          /\ last.res.trace[i] = [ev |-> "lookup", mux |-> "sr2", path |-> PSub]
          /\ After(i).ev = "handler"
    /\ last.res.body = "sr2 sub"

\* C7 (as claimed): when a request under a mount matches no route of the
\* child Mux, the child's NotFound handler answers if it has one, and else
\* the NotFound handler configured on the root Mux answers.
C7_NestedNotFound ==
    last.served =>
        \A i \in 1..Len(last.res.trace) :
            (last.res.trace[i].ev = "notfound" /\ last.res.trace[i].mux # Root)
            => LET c == last.res.trace[i].mux
               IN IF muxes[c].notFound # NilH
                  THEN last.res.body = muxes[c].notFound.id
                  ELSE muxes[Root].notFound # NilH
                       => last.res.body = muxes[Root].notFound.id

\* ------------------------------------------------------------------------
\* Specification SpecMountStack: three Muxes, each with its own middleware
\* stack and route, mounted in one another, then a request to the root
\* ------------------------------------------------------------------------
StackedMountPaths == {PAdmin, PAcc}

StackedRequestPaths ==
    {<<"/", "sub">>,
     <<"/", "nope">>,
     <<"/", "admin">>,
     <<"/", "admin", "/">>,
     <<"/", "admin", "/", "sub">>,
     <<"/", "acc", "/", "44", "/", "sub">>,
     <<"/", "admin", "/", "admin", "/", "sub">>,
     <<"/", "admin", "/", "admin", "/", "nope">>,
     <<"/", "admin", "/", "acc", "/", "44", "/", "sub">>,
     <<"/", "acc", "/", "44", "/", "admin", "/", "sub">>}

\* mx.Use(mw), once and before mx registers anything
StackedUse(mx) ==
    /\ Wiring
    /\ muxes[mx].routes = "nil"
    /\ muxes[mx].middlewares = <<>>
    /\ Apply(Use(World, mx, <<GroupMw[mx]>>))

\* mx.Get("/sub", h), once
StackedGet(mx) ==
    /\ Wiring
    /\ PSub \notin RegPatterns(mx)
    /\ Apply(Get(World, mx, PSub, <<SubHandler(mx)>>))

\* mx.Mount(p, child), once per mount point
StackedMount(mx, p, child) ==
    /\ Wiring
    /\ p \notin DOMAIN mounts[mx]
    /\ NumMounts < MaxMounts
    /\ Apply(Mount(World, mx, p, <<MuxHandler(child)>>))

MountStackNext ==
    \/ \E mx \in MuxIds : StackedUse(mx)
    \/ \E mx \in MuxIds : StackedGet(mx)
    \/ \E pair \in MountPairs, p \in StackedMountPaths :
          StackedMount(pair[1], p, pair[2])
    \/ \E q \in StackedRequestPaths : Serve("GET", q)

SpecMountStack == Init /\ [][MountStackNext]_vars

\* the number of middleware handlers entered before position i of the trace
EntersBefore(i) ==
    Cardinality({j \in 1..(i - 1) : last.res.trace[j].ev = "enter"})

\* C21: a request routed through a mount passes through the middleware
\* stack of the mounting Mux before the sub-router's lookup, middlewares and
\* handler, at every nesting level: behind each lookup that finds a route
\* come the enters of that Mux's stack in order, then the mount wrapper or
\* the handler, and the exits of that stack come in reverse order after
\* everything nested inside.
C21_MountingStackRunsFirst ==
    (last.served /\ ~last.res.panic) =>
        \A i \in Lookups :
            LET stack == muxes[last.res.trace[i].mux].middlewares
                k == Len(stack)
                n == Len(last.res.trace)
                out == EntersBefore(i)
            IN After(i).ev \notin {"notfound", "none"} =>
                  /\ i + k < n
                  /\ \A j \in 1..k :
                        /\ last.res.trace[i + j] =
                               [ev |-> "enter", mw |-> stack[j].id]
                        /\ last.res.trace[n - out - k + j] =
                               [ev |-> "exit", mw |-> stack[k + 1 - j].id]
                  /\ After(i + k).ev \in {"mount", "handler", "http.NotFound"}

\* C21 witness: three Muxes nested by two mounts, each with a middleware;
\* the request reached the innermost handler after the root's, the middle
\* Mux's and the innermost Mux's middlewares, in that order.
C21_Witness ==
    /\ last.served
    /\ Cardinality(Lookups) = 3
    /\ last.res.body = SubHandler("sr2").id
    /\ \A mx \in MuxIds : muxes[mx].middlewares # <<>>
    /\ \E a, b, c \in 1..Len(last.res.trace) :
          /\ a < b
          /\ b < c
          /\ last.res.trace[a] = [ev |-> "enter", mw |-> GroupMw["r"].id]
          /\ last.res.trace[b] = [ev |-> "enter", mw |-> GroupMw["sr1"].id]
          /\ last.res.trace[c] = [ev |-> "enter", mw |-> GroupMw["sr2"].id]

\* the positions of the trace where a mount wrapper ran
MountEvents ==
    {i \in 1..Len(last.res.trace) : last.res.trace[i].ev = "mount"}

\* the named parameters the mount pattern p captures from the lookup path q
MountCaptures(p, q) ==
    MapDel(IF Exactly(p, q) THEN Captures(p, q)
           ELSE Captures(p \o <<"/", "*">>, q),
           <<"*">>)

\* the mount points of the Mux of lookup i that sent the request on to the
\* handler mounted there
MountsTaken(i) ==
    LET m == last.res.trace[i].mux
        q == last.res.trace[i].path
    IN {p \in DOMAIN mounts[m] :
           /\ last.res.trace[i + 1 + Len(muxes[m].middlewares)] =
                  [ev |-> "mount", h |-> mounts[m][p], sub |-> FALSE]
           /\ Exactly(p, q) \/ Below(p, q)}

C23_StarHiddenBelowMount ==
    last.served =>
        \A e \in HandlerEvents :
            (\E i \in MountEvents : i < e)
            => <<"*">> \notin DOMAIN last.res.trace[e].params

\* C23 witness: a request went through the catch-alls of two nested mounts
\* and the handler below saw no "*".
C23_Witness ==
    /\ last.served
    /\ last.path = <<"/", "admin", "/", "acc", "/", "44", "/", "sub">>
    /\ Cardinality(MountEvents) = 2
    /\ \E e \in HandlerEvents :
          /\ last.res.trace[e].id = SubHandler("sr2").id
          /\ DOMAIN last.res.trace[e].params = {<<"id">>}

----------------------------------------------------------------------------
\* SpecRecover: a Mux whose stack may hold Recoverer among other
\* middlewares, with a route whose handler may panic

MaxRecStack == 3

PanicH == PanicHandler("boom")

\* r.Use(mw), before any route
RecoverUse(mw) ==
    /\ Wiring
    /\ muxes[Root].routes = "nil"
    /\ Len(muxes[Root].middlewares) < MaxRecStack
    /\ Apply(Use(World, Root, <<mw>>))

\* r.Get("/ping", inline..., h)
RecoverGet(inline, h) ==
    /\ Wiring
    /\ PPing \notin RegPatterns(Root)
    /\ Apply(Get(World, Root, PPing, inline \o <<h>>))

RecoverNext ==
    \/ \E mw \in {M1, M2, Recoverer} : RecoverUse(mw)
    \/ \E h \in {H1, PanicH} :
          \E inline \in {<<>>, <<M2>>, <<Recoverer>>} : RecoverGet(inline, h)
    \/ Serve("GET", PPing)

SpecRecover == Init /\ [][RecoverNext]_vars

\* the positions of the trace where Recoverer was entered
RecovererEnters ==
    {i \in 1..Len(last.res.trace) :
        last.res.trace[i] = [ev |-> "enter", mw |-> Recoverer.id]}

\* the positions of the trace where something panicked
Panics == {i \in 1..Len(last.res.trace) : last.res.trace[i].ev = "panic"}

----------------------------------------------------------------------------
\* SpecTimeout: one request through the handler Timeout(timeout) returns

TimeoutInit ==
    /\ RouterIdle
    /\ ThrottleIdle
    /\ timeout \in 0..MaxTimeout
    /\ work \in 0..MaxWork
    /\ clock = 0
    /\ deadline = 0
    /\ parentDone = FALSE
    /\ ctxErr = "nil"
    /\ tmpc = "idle"
    /\ statusCode = StatusOK
    /\ handlerCode = StatusOK
    /\ fired = FALSE
    /\ set504 = FALSE
    /\ waitFired = FALSE

TimeoutNext ==
    \/ Tick
    \/ TimeoutEnter
    \/ DeadlineFire
    \/ ParentCancel
    \/ WrappedWork
    \/ WrappedObserve
    \/ \E code \in {StatusOK, StatusNotFound} : WrappedReturn(code)
    \/ TimeoutCancel
    \/ TimeoutCheck

SpecTimeout == TimeoutInit /\ [][TimeoutNext]_vars

\* C24: Timeout sets the status 504 only after the wrapped handler has
\* returned, and then exactly when the deadline of the derived context had
\* fired; a handler that returned without the deadline firing keeps the
\* status it set; the handler is left only when its own work is over, and a
\* context that becomes done moves neither the handler nor the response.
C24_GatewayTimeoutIffDeadlineFired ==
    /\ [](/\ set504 => tmpc = "done"
          /\ tmpc = "done"
             => /\ set504 <=> fired
                /\ set504 => statusCode = StatusGatewayTimeout
                /\ ~fired => statusCode = handlerCode)
    /\ [][/\ (tmpc = "handler" /\ tmpc' # "handler") => work = 0
          /\ (ctxErr' # ctxErr /\ tmpc = "handler")
             => UNCHANGED <<tmpc, work, statusCode>>]_vars

\* C24 witness: the deadline fired while the handler still had work to do,
\* the handler finished its work and set 404, and the response ended 504.
C24_Witness ==
    /\ tmpc = "done"
    /\ timeout > 0
    /\ fired
    /\ ~parentDone
    /\ handlerCode = StatusNotFound
    /\ statusCode = StatusGatewayTimeout

----------------------------------------------------------------------------
\* SpecReplace: routes registered over and over on the root Mux, each with
\* an inline middleware that tells the registrations apart: m1 or m2 for
\* /ping/:id, stop for the patterns the tree has reasons to reject

MaxRegs == 3

ReplaceRegs ==
    ({PPingId} \X {M1, M2} \X {H1, H2})
    \cup ({PPingOther, PStarWoop} \X {MStop} \X {H1, H2})

ReplacePaths == {<<"/", "ping", "/", "1">>, <<"/", "ping", "/", "1", "/", "woop">>}

\* r.Get(pattern, mw, h)
ReplaceGet(g) ==
    /\ Wiring
    /\ Len(inits) < MaxRegs
    /\ Apply(Get(World, Root, g[1], <<g[2], g[3]>>))

ReplaceNext ==
    \/ \E g \in ReplaceRegs : ReplaceGet(g)
    \/ \E m \in {"GET", "HEAD"}, q \in ReplacePaths : Serve(m, q)

SpecReplace == Init /\ [][ReplaceNext]_vars

\* tree.Insert returns an error for pattern p in the GET tree of the root Mux
Rejects(p) ==
    PatternConflict(IF muxes[Root].routes = "nil" THEN EmptyTree
                    ELSE trees[muxes[Root].routes]["GET"],
                    PatternKeys(p))

\* the routes the root Mux has for pattern p under GET
RoutesFor(p) ==
    IF muxes[Root].routes = "nil" THEN {}
    ELSE {g \in regs[muxes[Root].routes] : g.mt = "GET" /\ g.pattern = p}

\* C26 (as the specification states it): a registration the tree rejects
\* aborts wire-up.
C26_RejectedRegistrationAborts ==
    [][\A g \in ReplaceRegs : (ReplaceGet(g) /\ Rejects(g[1])) => crashed']_vars

\* C27: registering a pattern that has a route for the method raises no
\* error and leaves exactly one route for it, that of the new registration,
\* and a request is answered by the handlers of the route the Mux has for
\* the pattern it matches: its inline middleware is entered and its handler
\* writes the response.
C27_LastRegistrationServes ==
    /\ [][\A g \in ReplaceRegs :
             (ReplaceGet(g) /\ RoutesFor(g[1]) # {})
             => /\ ~crashed'
                /\ Cardinality(RoutesFor(g[1])') = 1
                /\ \A n \in RoutesFor(g[1])' : n.handlers = <<g[2], g[3]>>]_vars
    /\ [](\A p \in {PPingId} :
             /\ Cardinality(RoutesFor(p)) <= 1
             /\ (last.served /\ last.method = "GET" /\ Matches(p, last.path))
                => \A n \in RoutesFor(p) :
                      /\ AnsweredBy(n)
                      /\ [ev |-> "enter", mw |-> n.handlers[1].id]
                         \in {last.res.trace[i] : i \in 1..Len(last.res.trace)})

\* C27 witness: /ping/:id was registered with m1 and then with m2 and h2,
\* and GET /ping/1 entered m2 and was answered by h2.
C27_Witness ==
    /\ last.served
    /\ ~crashed
    /\ inits = <<M1.id, M2.id>>
    /\ last.method = "GET"
    /\ last.path = <<"/", "ping", "/", "1">>
    /\ Cardinality(RoutesFor(PPingId)) = 1
    /\ last.res.body = H2.id
    /\ last.res.trace[2] = [ev |-> "enter", mw |-> M2.id]

----------------------------------------------------------------------------
\* C30 (as the specification states it): mx.Mount("/", h) registers h under
\* the patterns "", "/" and "/*" of mx, and wire-up goes on.
C30_MountOnSlashRegisters ==
    [][\A pair \in MountPairs :
          MountMux(pair[1], PRoot, pair[2])
          => /\ ~crashed'
             /\ {<<>>, <<"/">>, <<"/", "*">>} \subseteq RegPatterns(pair[1])']_vars

----------------------------------------------------------------------------
\* SpecShared: the function one call of Throttle returned is added with Use
\* to a Mux that registers two routes

SharedRoutes ==
    {[pattern |-> PPing, handlers |-> <<H1>>],
     [pattern |-> PHi, handlers |-> <<M2, H2>>]}

\* r.Use(mw): Throttle once at most
SharedUse(mw) ==
    /\ Wiring
    /\ \A i \in 1..Len(muxes[Root].middlewares) : muxes[Root].middlewares[i] # mw
    /\ Apply(Use(World, Root, <<mw>>))

SharedNext ==
    \/ \E mw \in {M1, Throttle} : SharedUse(mw)
    \/ \E rt \in SharedRoutes : RegisterRoute(rt)
    \/ \E q \in StackPaths : ServeMore("GET", q)

SpecShared == Init /\ [][SharedNext]_vars

\* C31 (as claimed): a request that goes through the throttler of a route is
\* answered by the handler of that route, with the middlewares that follow
\* Throttle in the chain of that route.
C31_WrapperInvokesItsHandler ==
    (last.served /\ ~last.res.panic) =>
        \A g \in Matching :
            (\E i \in 1..Len(g.stack) : g.stack[i] = Throttle)
            => /\ AnsweredBy(g)
               /\ Enters(last.res.trace, M2.id) = Len(g.handlers) - 1

----------------------------------------------------------------------------
\* SpecTimeoutThrottle: r.Use(Timeout(timeout)); r.Use(Throttle(1)) or a
\* throttler with a backlog. Request 1 comes through Timeout, whose wrapped
\* handler is the throttler; the other requests contend for its tokens.

TimeoutThrottleInit ==
    /\ RouterIdle
    /\ limit = 1
    /\ backlogLimit \in 0..MaxBacklog
    /\ tpanic = ThrottleBacklog(limit, backlogLimit).panic
    /\ tokens = ThrottleBacklog(limit, backlogLimit).tokens
    /\ backlogTokens = ThrottleBacklog(limit, backlogLimit).backlogTokens
    /\ pc = [r \in Reqs |-> "idle"]
    /\ ctxDone = [r \in Reqs |-> FALSE]
    /\ timerC = [r \in Reqs |-> FALSE]
    /\ tok = [r \in Reqs |-> FALSE]
    /\ btok = [r \in Reqs |-> FALSE]
    /\ invoked = [r \in Reqs |-> FALSE]
    /\ resp = [r \in Reqs |-> NoResp]
    /\ timeout \in 1..MaxTimeout
    /\ clock = 0
    /\ deadline = 0
    /\ parentDone = FALSE
    /\ ctxErr = "nil"
    /\ tmpc = "idle"
    /\ statusCode = StatusOK
    /\ handlerCode = StatusOK
    /\ work = 0
    /\ fired = FALSE
    /\ set504 = FALSE
    /\ waitFired = FALSE

\* the outer select of the throttler: request 1 reaches it from Timeout
ThrottledEnter(r) ==
    /\ r = 1 => tmpc = "handler"
    /\ EnterCanceled(r) \/ EnterBacklog(r) \/ EnterDefault(r)

\* the timer of the context Timeout made fires: the context gets the error
\* DeadlineExceeded and its Done channel, which the throttler selects on,
\* is closed; waitFired records that request 1 was then in the queue with
\* no active token to take
ThrottledDeadlineFire ==
    /\ tmpc \in {"handler", "cancel"}
    /\ ctxErr = "nil"
    /\ clock >= deadline
    /\ ctxErr' = "DeadlineExceeded"
    /\ fired' = TRUE
    /\ ctxDone' = [ctxDone EXCEPT ![1] = TRUE]
    /\ waitFired' = (pc[1] = "wait" /\ tokens = 0)
    /\ UNCHANGED <<timeout, clock, deadline, parentDone, tmpc, statusCode,
                   handlerCode, work, set504, limit, backlogLimit, tpanic,
                   tokens, backlogTokens, pc, timerC, tok, btok, invoked,
                   resp, rvars>>

\* the throttler returns to Timeout with the response it or its handler
\* wrote
ThrottlerReturns ==
    /\ pc[1] = "done"
    /\ WrappedReturn(resp[1].status)

TimeoutThrottleNext ==
    \/ Tick
    \/ TimeoutEnter
    \/ ThrottledDeadlineFire
    \/ ThrottlerReturns
    \/ TimeoutCancel
    \/ TimeoutCheck
    \/ \E r \in Reqs :
          \/ ThrottledEnter(r)
          \/ TimerFire(r)
          \/ WaitTimedOut(r)
          \/ WaitCanceled(r)
          \/ WaitToken(r)
          \/ HandlerReturn(r)
          \/ DeferTok(r)
          \/ DeferBtok(r)

SpecTimeoutThrottle == TimeoutThrottleInit /\ [][TimeoutThrottleNext]_vars

\* C34 (as claimed): when the deadline of Timeout fired while request 1 was
\* waiting for an active token, the throttler does not invoke the handler,
\* has given its queue token back when it is done, and the response ends
\* with status 504.
C34_DeadlineWhileWaiting ==
    waitFired =>
        /\ ~invoked[1]
        /\ pc[1] = "done" => ~btok[1]
        /\ tmpc = "done" => statusCode = StatusGatewayTimeout

----------------------------------------------------------------------------
\* Claims about registration order, in SpecStack

\* how often middleware id occurs in the sequence stack
CountIn(stack, id) ==
    Cardinality({i \in 1..Len(stack) : stack[i].id = id})

\* C35: Use wraps only the routes registered after it. A step that grows
\* the Mux's stack leaves the registered handlers as they are, and a request
\* matched to a route enters the first middleware of the stack the route was
\* registered under, and enters no middleware more often than it occurs in
\* that stack, however the stack has grown since.
C35_UseWrapsLaterRoutesOnly ==
    /\ [][muxes'[Root].middlewares # muxes[Root].middlewares
            => trees' = trees]_vars
    /\ [](NativeServed =>
            \A g \in Matching :
                /\ g.stack # <<>> => Enters(last.res.trace, g.stack[1].id) >= 1
                /\ \A mw \in {M1, MStop} :
                      Enters(last.res.trace, mw.id) <= CountIn(g.stack, mw.id))

\* C35 witness: Use(M1), a route, Use(M1) again, a second route; the request
\* for the first route entered M1 once although the stack holds it twice.
C35_Witness ==
    /\ NativeServed
    /\ StackCount(M1.id) = 2
    /\ \E g \in Matching : g.stack = <<M1>>
    /\ \E g \in regs[muxes[Root].routes] : g.stack = <<M1, M1>>
    /\ Enters(last.res.trace, M1.id) = 1

----------------------------------------------------------------------------
\* SpecInline: a Mux with Use, a route with an inline middleware, a route
\* without, Groups made from the Mux with a route each, then a request
InlinePaths == StackPaths \cup {GroupPattern[g] : g \in GroupIds}

InlineNext ==
    \/ UseMw(M1)
    \/ \E rt \in StackRoutes : RegisterRoute(rt)
    \/ \E g \in GroupIds : MakeGroup(g)
    \/ \E g \in GroupIds : GroupGet(g)
    \/ \E q \in InlinePaths : Serve("GET", q)

SpecInline == Init /\ [][InlineNext]_vars

\* C36: registering a route with inline middlewares leaves the stack of
\* every Mux as it was, so no stack ever holds the inline middleware M2, and
\* a request answered by a route registered without it, on the same Mux or
\* through a Group, never enters it.
C36_InlineLeavesStackAlone ==
    /\ [][regs' # regs =>
            \A mx \in MuxIds :
                muxes'[mx].middlewares = muxes[mx].middlewares]_vars
    /\ [](/\ \A mx \in MuxIds : CountIn(muxes[mx].middlewares, M2.id) = 0
          /\ (last.served /\ ReachedHandlers # {} /\ ReachedHandlers # {H1.id})
             => Enters(last.res.trace, M2.id) = 0)

\* C36 witness: the route with the inline middleware was registered on the
\* empty stack, then Use(M1), then a Group was made and registered its
\* route; the request for the Group's route entered M1 and not M2.
C36_Witness ==
    /\ last.served
    /\ ReachedHandlers = {GroupHandler["sr1"].id}
    /\ muxes[Root].routes # "nil"
    /\ \E g \in regs[muxes[Root].routes] :
          g.pattern = PRoot /\ g.stack = <<>> /\ g.handlers = <<M2, H1>>
    /\ groups["sr1"].stack = <<M1>>
    /\ Enters(last.res.trace, M1.id) = 1
    /\ Enters(last.res.trace, M2.id) = 0

====
